---- MODULE Spec2Model ----
(***************************************************************************)
(* osmpbf: the blob stream reader (BlobReader), blob decoding (Blob,       *)
(* decode_blob), the iteration over the elements of a PrimitiveBlock and   *)
(* the delta decoding of way refs and relation members.                    *)
(*                                                                         *)
(* The underlying stream is a finite sequence of bytes.  A record of the   *)
(* stream is a 4-byte big-endian header length, a BlobHeader message and   *)
(* a Blob message, both in protobuf wire format.  The reader's state is    *)
(* the position of the underlying stream, the tracked offset and the       *)
(* last_blob_ok flag; history variables record what the calls returned.    *)
(*                                                                         *)
(* Specifications: Spec (the reader and decode() of the blobs it yields),  *)
(* DecodeSpec (decode_blob on payloads around the 32 MiB limit),           *)
(* BlockSpec (elements() and for_each_element on one block), WaySpec       *)
(* (Way::refs) and RelSpec (Relation::members).  Each one holds the        *)
(* variables of the others at a fixed value.                               *)
(***************************************************************************)
EXTENDS Integers, Sequences, FiniteSets, TLC

(***************************************************************************)
(* Bounds of the model.                                                    *)
(***************************************************************************)
\* next() is not called any more once this many blobs have been yielded
MaxBlobs == 3
\* seek() / seek_raw() are not called any more after this many calls
MaxSeeks == 1
\* a large message handed to decode_blob has at most this many fields
MaxFields == 2
\* a PrimitiveBlock has at most this many groups
MaxGroups == 2
\* a way has at most this many refs
MaxRefs == 3
\* the roles_sid, memids and types of a relation have at most this many entries
MaxMembers == 3
\* the keys and the vals of an element have at most this many entries each
MaxTags == 2
\* a varint of the model's streams has at most this many bytes
VarintBytes == 4

(***************************************************************************)
(* Option<T>: None is the empty sequence, Some(x) the sequence <<x>>.      *)
(***************************************************************************)
None == <<>>
Some(x) == <<x>>
IsSome(o) == Len(o) = 1
Unwrap(o) == o[1]
\* Option::map with the closure |x| x + d
MapAdd(o, d) == IF IsSome(o) THEN Some(Unwrap(o) + d) ELSE None

Min(a, b) == IF a < b THEN a ELSE b

(***************************************************************************)
(* Program constants.                                                      *)
(***************************************************************************)
MAX_BLOB_HEADER_SIZE == 64 * 1024
MAX_BLOB_MESSAGE_SIZE == 32 * 1024 * 1024

(***************************************************************************)
(* The protobuf wire format, as far as the reader's messages use it.       *)
(* A message is a sequence of fields; a field is a varint tag              *)
(* (field number * 8 + wire type) and a value: a varint (wire type 0),     *)
(* 8 bytes (1), a length-delimited byte string (2) or 4 bytes (5).         *)
(* Groups (3, 4) and the wire types 6 and 7 are decode errors, and so is   *)
(* field number 0 and input that ends inside a field.                      *)
(***************************************************************************)
RECURSIVE ReadVarint(_, _, _, _, _)
\* base-128 little-endian; the high bit of a byte says that another follows
ReadVarint(bs, i, k, shift, acc) ==
    IF i > Len(bs) \/ k > VarintBytes THEN [ok |-> FALSE, val |-> 0, next |-> i]
    ELSE IF bs[i] < 128 THEN [ok |-> TRUE, val |-> acc + bs[i] * shift, next |-> i + 1]
    ELSE ReadVarint(bs, i + 1, k + 1, shift * 128, acc + (bs[i] - 128) * shift)

BadParse == [ok |-> FALSE, fields |-> <<>>]

Field(num, wt, int, bytes) == [num |-> num, wt |-> wt, int |-> int, bytes |-> bytes]

RECURSIVE ParseFields(_, _, _)

\* a varint field, v its value as read
VarintField(bs, num, v, acc) ==
    IF ~v.ok THEN BadParse
    ELSE ParseFields(bs, v.next, Append(acc, Field(num, 0, v.val, <<>>)))

\* a length-delimited field, l its length as read
BytesField(bs, num, l, acc) ==
    IF ~l.ok \/ l.next + l.val - 1 > Len(bs) THEN BadParse
    ELSE ParseFields(bs, l.next + l.val,
                     Append(acc, Field(num, 2, 0, SubSeq(bs, l.next, l.next + l.val - 1))))

\* a fixed64 (w = 8) or fixed32 (w = 4) field, its value starting at index i
FixedField(bs, num, wt, w, i, acc) ==
    IF i + w - 1 > Len(bs) THEN BadParse
    ELSE ParseFields(bs, i + w, Append(acc, Field(num, wt, 0, SubSeq(bs, i, i + w - 1))))

\* a field, t its tag as read
TaggedField(bs, t, acc) ==
    IF ~t.ok \/ t.val \div 8 = 0 THEN BadParse
    ELSE IF t.val % 8 = 0 THEN
        VarintField(bs, t.val \div 8, ReadVarint(bs, t.next, 1, 1, 0), acc)
    ELSE IF t.val % 8 = 2 THEN
        BytesField(bs, t.val \div 8, ReadVarint(bs, t.next, 1, 1, 0), acc)
    ELSE IF t.val % 8 = 1 THEN FixedField(bs, t.val \div 8, 1, 8, t.next, acc)
    ELSE IF t.val % 8 = 5 THEN FixedField(bs, t.val \div 8, 5, 4, t.next, acc)
    ELSE BadParse

\* Message::merge_from: reads fields until the input is exhausted
ParseFields(bs, i, acc) ==
    IF i > Len(bs) THEN [ok |-> TRUE, fields |-> acc]
    ELSE TaggedField(bs, ReadVarint(bs, i, 1, 1, 0), acc)

\* a known field of the message arrives with the wire type its schema gives
WireTypesOk(fields, schema) ==
    \A k \in 1..Len(fields) :
        fields[k].num \in DOMAIN schema => fields[k].wt = schema[fields[k].num]

HasField(fields, num) == \E k \in 1..Len(fields) : fields[k].num = num

\* a singular field read more than once keeps its last value
LastField(fields, num) ==
    LET ks == {k \in 1..Len(fields) : fields[k].num = num}
    IN  fields[CHOOSE k \in ks : \A j \in ks : j <= k]

\* a string field's bytes must be UTF-8; the streams of the model hold
\* ASCII and the byte 255, which no UTF-8 text contains
IsUtf8(bytes) == \A k \in 1..Len(bytes) : bytes[k] < 128


(***************************************************************************)
(* fileformat::BlobHeader: required string type = 1, optional bytes        *)
(* indexdata = 2, required int32 datasize = 3.  parse_message_from_reader  *)
(* reads its input to the end, and fails on a malformed field, a known     *)
(* field with the wrong wire type, a type that is not UTF-8 and a missing  *)
(* required field.                                                         *)
(***************************************************************************)
BlobHeaderSchema == (1 :> 2) @@ (2 :> 2) @@ (3 :> 0)

\* the message built from the fields p read
BlobHeaderFrom(p) ==
    IF /\ p.ok
       /\ WireTypesOk(p.fields, BlobHeaderSchema)
       /\ HasField(p.fields, 1)
       /\ HasField(p.fields, 3)
       /\ \A k \in 1..Len(p.fields) : p.fields[k].num = 1 => IsUtf8(p.fields[k].bytes)
    THEN [ok  |-> TRUE,
          msg |-> [field_type |-> LastField(p.fields, 1).bytes,
                   datasize   |-> LastField(p.fields, 3).int,
                   indexdata  |-> IF HasField(p.fields, 2)
                                  THEN Some(LastField(p.fields, 2).bytes) ELSE None]]
    ELSE [ok |-> FALSE, msg |-> <<>>]

ParseBlobHeader(bs) == BlobHeaderFrom(ParseFields(bs, 1, <<>>))

(***************************************************************************)
(* fileformat::Blob: optional bytes raw = 1, optional int32 raw_size = 2,  *)
(* optional bytes zlib_data = 3, optional bytes lzma_data = 4, optional    *)
(* bytes OBSOLETE_bzip2_data = 5.  No field is required: the empty input   *)
(* is a Blob that has neither raw nor zlib_data.                           *)
(***************************************************************************)
BlobSchema == (1 :> 2) @@ (2 :> 0) @@ (3 :> 2) @@ (4 :> 2) @@ (5 :> 2)

\* the message built from the fields p read
BlobBodyFrom(p) ==
    IF p.ok /\ WireTypesOk(p.fields, BlobSchema)
    THEN [ok  |-> TRUE,
          msg |-> [raw       |-> IF HasField(p.fields, 1)
                                 THEN Some(LastField(p.fields, 1).bytes) ELSE None,
                   raw_size  |-> IF HasField(p.fields, 2)
                                 THEN Some(LastField(p.fields, 2).int) ELSE None,
                   zlib_data |-> IF HasField(p.fields, 3)
                                 THEN Some(LastField(p.fields, 3).bytes) ELSE None]]
    ELSE [ok |-> FALSE, msg |-> <<>>]

ParseBlobBody(bs) == BlobBodyFrom(ParseFields(bs, 1, <<>>))

(***************************************************************************)
(* The streams the reader is run on.  A stream is the bytes of a sequence  *)
(* of chunks; a chunk is a framed record or a damaged piece of one.        *)
(***************************************************************************)
RECURSIVE Flatten(_)
Flatten(chunks) == IF chunks = <<>> THEN <<>> ELSE Head(chunks) \o Flatten(Tail(chunks))

\* the four bytes of a big-endian u32
U32(n) == << n \div 16777216, (n \div 65536) % 256, (n \div 256) % 256, n % 256 >>

TagOSMHeader == << 79, 83, 77, 72, 101, 97, 100, 101, 114 >>
TagOSMData   == << 79, 83, 77, 68, 97, 116, 97 >>
TagOSMDataX  == TagOSMData \o << 88 >>
TagX         == << 88 >>

HeaderBytes(tag, datasize) == << 10, Len(tag) >> \o tag \o << 24, datasize >>
RawBody(payload)  == << 10, Len(payload) >> \o payload
ZlibBody(payload) == << 26, Len(payload) + 1, 120 >> \o payload
Record(tag, body) ==
    U32(Len(HeaderBytes(tag, Len(body)))) \o HeaderBytes(tag, Len(body)) \o body

\* well-formed records
RecHeader   == Record(TagOSMHeader, RawBody(<<>>))
RecDataZlib == Record(TagOSMData, ZlibBody(<< 10, 0 >>))
RecDataRaw  == Record(TagOSMData, RawBody(<< 0 >>))
RecDataNone == Record(TagOSMData, <<>>)
RecHeaderNone == Record(TagOSMHeader, <<>>)
RecHeaderBB == Record(TagOSMHeader, RawBody(<< 10, 0 >>))
RecX        == Record(TagX, RawBody(<< 0 >>))
RecDataX    == Record(TagOSMDataX, <<>>)
\* damaged pieces
LenTooBig    == U32(MAX_BLOB_HEADER_SIZE)
LenBelowMax  == U32(MAX_BLOB_HEADER_SIZE - 1) \o HeaderBytes(TagX, 0)
NoDatasize   == U32(3) \o << 10, 1, 88 >>
EmptyHeader  == U32(0)
BadBody      == U32(5) \o HeaderBytes(TagX, 1) \o << 0 >>
ShortBody    == U32(5) \o HeaderBytes(TagX, 5)
CutHeader    == SubSeq(RecHeader, 1, 9)

StreamChunks ==
    { <<>>,
      << RecHeader, RecDataZlib >>,
      << RecHeader, RecDataZlib, RecX >>,
      << RecDataNone, RecDataX, RecDataRaw >>,
      << RecHeaderNone, RecDataNone >>,
      << RecHeaderBB, RecX >>,
      << RecX, << 0 >> >>,
      << RecX, << 0, 0, 0 >> >>,
      << RecX, LenTooBig, RecX >>,
      << RecX, LenBelowMax >>,
      << RecX, NoDatasize, RecX >>,
      << EmptyHeader, RecX >>,
      << RecX, BadBody, RecX >>,
      << RecDataRaw, BadBody >>,
      << RecX, ShortBody >>,
      << RecX, CutHeader >> }

(***************************************************************************)
(* State.                                                                  *)
(***************************************************************************)
VARIABLES
    stream,        \* the bytes of the underlying stream
    pos,           \* BlobReader.reader: the position of the underlying stream
    offset,        \* BlobReader.offset
    last_blob_ok,  \* BlobReader.last_blob_ok
    seekable,      \* the reader type R implements Seek
    ctor,          \* history: the constructor that made the reader
    initPos,       \* history: the position of the stream at construction
    last,          \* history: the last call on the reader and what it returned
    yielded,       \* history: the blobs next() has yielded as Ok, in order
    errSeen,       \* history: next() has yielded an Err
    seeks,         \* history: the number of seek() and seek_raw() calls
    seekFailed,    \* history: a seek() or seek_raw() call has returned Err
    faulted,       \* history: a read of next() has met an I/O error
    decoded        \* history: the last decode() call and its result

readerVars == << stream, pos, offset, last_blob_ok, seekable, ctor, initPos, last,
                 yielded, errSeen, seeks, seekFailed, faulted, decoded >>

\* decode_blob on its own, run on Blob messages whose payloads are too
\* large to write out byte by byte
VARIABLES
    dblob,         \* the Blob message handed to decode_blob
    dresult        \* history: the target type and the result of the last call

decodeVars == << dblob, dresult >>

\* PrimitiveBlock::elements and for_each_element on one block
VARIABLES
    pblock,        \* the PrimitiveBlock: its groups, in stored order
    iter,          \* the BlockElementsIter that elements() returned
    emitted,       \* history: the elements iter.next() has yielded, in order
    ended,         \* history: iter.next() has returned None
    visited        \* history: the elements for_each_element passed to f, if called

blockVars == << pblock, iter, emitted, ended, visited >>

\* Way::refs (WayRefIter) and Relation::members (RelMemberIter)
VARIABLES
    overflow_checks, \* the build checks integer overflow (debug) or not (release)
    panicked,        \* history: a call has panicked
    way,             \* osmformat::Way: its refs, the stored deltas
    refIter,         \* the WayRefIter that refs() returned
    refsOut,         \* history: the values refIter.next() has yielded, in order
    refsEnded,       \* history: refIter.next() has returned None
    rel,             \* osmformat::Relation: its roles_sid, memids and types
    memIter,         \* the RelMemberIter that members() returned
    membersOut,      \* history: the members memIter.next() has yielded, in order
    membersEnded     \* history: memIter.next() has returned None

buildVars == << overflow_checks, panicked >>
wayVars == << way, refIter, refsOut, refsEnded >>
relVars == << rel, memIter, membersOut, membersEnded >>

\* Tags (TagIter, RawTagIter) of one element, and the accessors of one Info,
\* over the string table of their block
VARIABLES
    stringtable,     \* the block's string table: its entries, byte strings
    elem,            \* the element's keys and vals, indices into the table
    tagIter,         \* the TagIter that tags() returned
    tagsOut,         \* history: what tagIter.next() has yielded, with positions
    tagsNone,        \* history: tagIter.next() has returned None
    rawIter,         \* the RawTagIter that raw_tags() returned
    rawOut,          \* history: the pairs rawIter.next() has yielded, in order
    rawNone,         \* history: rawIter.next() has returned None
    info,            \* osmformat::Info: its optional fields
    date_granularity,\* the block's date_granularity
    called           \* history: the last accessor or lookup call and its result

tableVars == << stringtable >>
tagVars == << elem, tagIter, tagsOut, tagsNone, rawIter, rawOut, rawNone >>
infoVars == << info, date_granularity, called >>

vars == << readerVars, decodeVars, blockVars, buildVars, wayVars, relVars,
           tableVars, tagVars, infoVars >>

\* no Blob message is under decode_blob
DecodeIdle == dblob = << >> /\ dresult = << >>

\* no block is iterated
BlockIdle ==
    /\ pblock = << >>
    /\ iter = << >>
    /\ emitted = << >>
    /\ ended = FALSE
    /\ visited = << >>

\* no way is iterated
WayIdle ==
    /\ way = << >>
    /\ refIter = << >>
    /\ refsOut = << >>
    /\ refsEnded = FALSE

\* no relation is iterated
RelIdle ==
    /\ rel = << >>
    /\ memIter = << >>
    /\ membersOut = << >>
    /\ membersEnded = FALSE

\* no arithmetic is done
BuildIdle == overflow_checks = FALSE /\ panicked = FALSE

\* no tags are iterated
TagIdle ==
    /\ elem = << >>
    /\ tagIter = << >>
    /\ tagsOut = << >>
    /\ tagsNone = FALSE
    /\ rawIter = << >>
    /\ rawOut = << >>
    /\ rawNone = FALSE

\* no Info is read and no string is looked up
InfoIdle ==
    /\ info = << >>
    /\ date_granularity = 0
    /\ called = << >>

\* there is no string table
TableIdle == stringtable = << >>

\* no element of a block is read
ElementsIdle == TableIdle /\ TagIdle /\ InfoIdle

\* the variables that the specification of the reader leaves alone
notReader == << decodeVars, blockVars, buildVars, wayVars, relVars,
    tableVars, tagVars, infoVars >>
\* the variables that the specification of decode_blob leaves alone
notDecode == << readerVars, blockVars, buildVars, wayVars, relVars,
    tableVars, tagVars, infoVars >>
\* the variables that the specification of the block iteration leaves alone
notBlock == << readerVars, decodeVars, buildVars, wayVars, relVars,
    tableVars, tagVars, infoVars >>
\* the variables that the iteration of a way's refs leaves alone
notWay == << readerVars, decodeVars, blockVars, relVars,
    tableVars, tagVars, infoVars >>
\* the variables that the iteration of a relation's members leaves alone
notRel == << readerVars, decodeVars, blockVars, wayVars,
    tableVars, tagVars, infoVars >>
\* the variables that the iteration of an element's tags leaves alone
notTag == << readerVars, decodeVars, blockVars, buildVars, wayVars, relVars,
    tableVars, infoVars >>
\* the variables that the accessors of an Info and the lookups leave alone
notInfo == << readerVars, decodeVars, blockVars, wayVars, relVars,
    tableVars, tagVars >>

(***************************************************************************)
(* What a call returns.                                                    *)
(***************************************************************************)
RetNone     == [kind |-> "None"]
RetOk(x)    == [kind |-> "Ok", val |-> x]
RetErr(e)   == [kind |-> "Err", err |-> e]

\* error.rs: new_blob_error, new_protobuf_error, From<io::Error>
InvalidHeaderSize    == [kind |-> "Blob", blob |-> "InvalidHeaderSize"]
HeaderTooBig(size)   == [kind |-> "Blob", blob |-> "HeaderTooBig", size |-> size]
MessageTooBig(size)  == [kind |-> "Blob", blob |-> "MessageTooBig", size |-> size]
Empty                == [kind |-> "Blob", blob |-> "Empty"]
ProtobufError(where) == [kind |-> "Protobuf", location |-> where]
IoError              == [kind |-> "Io"]

\* Blob::new
BlobNew(header, blob, off) == [header |-> header, blob |-> blob, offset |-> off]

(***************************************************************************)
(* BlobReader::next                                                        *)
(***************************************************************************)
\* "Stop iteration if there was an error."
\* a reader that a failed decode() of one of its blobs halts as well
StopIterationOnDecodeErr == ~last_blob_ok \/ decoded.res.kind = "Err"

StopIteration == ~last_blob_ok

\* the bytes the stream still holds at position p
Avail(p) == IF p < Len(stream) THEN Len(stream) - p ELSE 0

\* the bytes reader.take(n) delivers at position p: n of them, or fewer when
\* the stream ends first
Take(p, n) == SubSeq(stream, p + 1, Min(p + n, Len(stream)))

\* read_u32::<BigEndian> at position p
ReadU32(p) ==
    stream[p + 1] * 16777216 + stream[p + 2] * 65536 + stream[p + 3] * 256 + stream[p + 4]

\* mutant: the bound itself is let through
HeaderSizeAboveMax(header_size) == header_size > MAX_BLOB_HEADER_SIZE

\* header_size >= MAX_BLOB_HEADER_SIZE
HeaderSizeTooBig(header_size) == header_size >= MAX_BLOB_HEADER_SIZE

\* mutant: the Blob is given the offset the reader has reached
BlobOffsetCurrent(prev_offset, cur_offset) == cur_offset

\* the offset a yielded Blob carries: prev_offset, captured at the start of
\* the call, not the offset the reader has reached
BlobOffset(prev_offset, cur_offset) == prev_offset

\* mutant: the header's bytes are not counted
OffsetAfterBlobNoHeader(off, header_size, datasize) == MapAdd(off, datasize)

\* self.offset.map(|x| x + header_size + datasize)
OffsetAfterBlob(off, header_size, datasize) == MapAdd(off, header_size + datasize)

\* the offset once the four length bytes are read
OffsetAfterLen(off) == MapAdd(off, 4)

Outcome(ret, p, off, ok, hsize) ==
    [ret |-> ret, pos |-> p, offset |-> off, ok |-> ok, hsize |-> hsize]

\* mutant: the body is read with the header's limit
BodyLimitHeaderSize(header_size, header) == header_size

\* take(header.get_datasize() as u64)
BodyLimit(header_size, header) == header.datasize

\* the blob content: blob is the message parsed from bytes, the bytes that
\* take(datasize) delivers
BodyRead(prev_offset, p, off, header_size, header, fault, bytes, blob) ==
    IF fault = "body"
    THEN Outcome(RetErr(ProtobufError("blob content")), p, None, FALSE, Some(header_size))
    ELSE IF ~blob.ok
    THEN Outcome(RetErr(ProtobufError("blob content")), p + Len(bytes), None, FALSE,
                 Some(header_size))
    ELSE Outcome(RetOk(BlobNew(header, blob.msg, BlobOffset(prev_offset, off))),
                 p + Len(bytes),
                 OffsetAfterBlob(off, header_size, header.datasize),
                 TRUE, Some(header_size))

ReadBody(prev_offset, p, off, header_size, header, fault) ==
    BodyRead(prev_offset, p, off, header_size, header, fault,
             Take(p, BodyLimit(header_size, header)),
             ParseBlobBody(Take(p, BodyLimit(header_size, header))))

\* the blob header: header is the message parsed from bytes, the bytes that
\* take(header_size) delivers
HeaderRead(prev_offset, p, off, header_size, fault, bytes, header) ==
    IF fault = "header"
    THEN Outcome(RetErr(ProtobufError("blob header")), p, None, FALSE, Some(header_size))
    ELSE IF ~header.ok
    THEN Outcome(RetErr(ProtobufError("blob header")), p + Len(bytes), None, FALSE,
                 Some(header_size))
    ELSE ReadBody(prev_offset, p + Len(bytes), off, header_size, header.msg, fault)

ReadHeader(prev_offset, p, off, header_size, fault) ==
    HeaderRead(prev_offset, p, off, header_size, fault,
               Take(p, header_size), ParseBlobHeader(Take(p, header_size)))

\* mutant: every failure of the length read is reported, the end of the
\* stream too
OnLenErrorAlwaysErr(io_kind, p) ==
    Outcome(RetErr(InvalidHeaderSize), p, None, FALSE, None)

\* a length read that halts the reader at the end of the stream as well
OnLenErrorHalts(io_kind, p) ==
    IF io_kind = "UnexpectedEof"
    THEN Outcome(RetNone, p, None, FALSE, None)
    ELSE Outcome(RetErr(InvalidHeaderSize), p, None, FALSE, None)

\* Err(e) of the length read: self.offset = None, then the match on e.kind()
OnLenError(io_kind, p) ==
    IF io_kind = "UnexpectedEof"
    THEN Outcome(RetNone, p, None, last_blob_ok, None)
    ELSE Outcome(RetErr(InvalidHeaderSize), p, None, FALSE, None)

\* the read of the header length.  read_exact fails with UnexpectedEof when
\* fewer than four bytes are left; how many of them it has consumed by then
\* is unspecified (eaten).  Any other failure is an I/O error (fault "len").
ReadLen(fault, eaten) ==
    IF fault = "len"
    THEN OnLenError("Other", pos)
    ELSE IF Avail(pos) < 4
    THEN OnLenError("UnexpectedEof", pos + eaten)
    ELSE IF HeaderSizeTooBig(ReadU32(pos))
    THEN Outcome(RetErr(HeaderTooBig(ReadU32(pos))), pos + 4, OffsetAfterLen(offset),
                 FALSE, Some(ReadU32(pos)))
    ELSE ReadHeader(offset, pos + 4, OffsetAfterLen(offset), ReadU32(pos), fault)

\* the whole call
NextOutcome(fault, eaten) ==
    IF StopIteration
    THEN Outcome(RetNone, pos, offset, last_blob_ok, None)
    ELSE ReadLen(fault, eaten)

Faults == {"none", "len", "header", "body"}

\* the preceding call on the reader was a seek that succeeded, and where to
SeekedTo == IF last.op \in {"seek", "seek_raw"} /\ last.ret.kind = "Ok"
            THEN Some(last.ret.val) ELSE None

\* the call's effect, o being its outcome
NextEffect(fault, o) ==
    /\ o.ret.kind = "Ok" => Len(yielded) < MaxBlobs
    \* a fault is an input only where a read is made to meet it
    /\ StopIteration => fault = "none"
    /\ Avail(pos) < 4 => fault \in {"none", "len"}
    /\ faulted' = (faulted \/ fault # "none")
    /\ pos' = o.pos
    /\ offset' = o.offset
    /\ last_blob_ok' = o.ok
    /\ last' = [op |-> "next", ret |-> o.ret, start |-> pos, avail |-> Avail(pos),
                hsize |-> o.hsize, halted |-> StopIteration, fault |-> fault,
                seekedTo |-> SeekedTo,
                afterOk |-> last.op = "next" /\ last.ret.kind = "Ok",
                afterDecodeErr |-> decoded.res.kind = "Err",
                afterEof |-> last.op \in {"seek", "seek_raw"} /\ last.afterEof]
    /\ yielded' = IF o.ret.kind = "Ok"
                  THEN Append(yielded, [blob |-> o.ret.val, start |-> pos,
                                        hsize |-> Unwrap(o.hsize)])
                  ELSE yielded
    /\ errSeen' = (errSeen \/ o.ret.kind = "Err")
    /\ UNCHANGED << stream, seekable, ctor, initPos, seeks, seekFailed, decoded >>
    /\ UNCHANGED notReader

BlobReaderNext(fault, eaten) == NextEffect(fault, NextOutcome(fault, eaten))

(***************************************************************************)
(* BlobReader::seek and BlobReader::seek_raw                               *)
(***************************************************************************)
\* Ok(offset) => self.offset = Some(ByteOffset(offset))
SeekOkOffset(result) == Some(result)

\* Err(e) => self.offset = None
SeekErrOffset == None

\* mutant: a seek that succeeds re-arms the reader
SeekClearsError(ok) == TRUE

\* neither seek nor seek_raw assigns last_blob_ok
SeekLastBlobOk(ok) == ok

\* reader.seek(from): the new position, or -1 when the seek is refused
\* because the position would be negative
SeekResult(from) ==
    LET target == CASE from.whence = "Start"   -> from.n
                    [] from.whence = "End"     -> Len(stream) + from.n
                    [] from.whence = "Current" -> pos + from.n
    IN  IF target < 0 THEN -1 ELSE target

\* the history entry of a call that is not next()
OtherCall(op, ret) ==
    [op |-> op, ret |-> ret, start |-> pos, avail |-> Avail(pos), hsize |-> None,
     halted |-> StopIteration, fault |-> "none", seekedTo |-> None, afterOk |-> FALSE,
     afterDecodeErr |-> FALSE,
     afterEof |-> /\ last.op = "next"
                  /\ last.ret.kind = "None"
                  /\ ~last.halted
                  /\ last.fault = "none"
                  /\ last.avail = 0]

\* the body shared by seek and seek_raw: io_fails is a failure of the
\* underlying seek for a reason of its own
SeekEffect(op, result, failed) ==
    /\ seekable
    /\ seeks < MaxSeeks
    /\ pos' = IF failed THEN pos ELSE result
    /\ offset' = IF failed THEN SeekErrOffset ELSE SeekOkOffset(result)
    /\ last_blob_ok' = SeekLastBlobOk(last_blob_ok)
    /\ last' = OtherCall(op, IF failed THEN RetErr(IoError) ELSE RetOk(result))
    /\ seeks' = seeks + 1
    /\ seekFailed' = (seekFailed \/ failed)
    /\ UNCHANGED << stream, seekable, ctor, initPos, yielded, errSeen, faulted,
                    decoded >>
    /\ UNCHANGED notReader

SeekCall(op, from, io_fails) ==
    SeekEffect(op, SeekResult(from), io_fails \/ SeekResult(from) < 0)

\* the positions seek() is tried on: the start of the stream, the offset
\* and the start of every blob read so far, a position inside a length
\* field and one past the end.  (The first byte at each is below 128, so
\* that the length read there is below 2^31.)
SeekTargets ==
    {0, 2, Len(stream) + 1}
    \cup {yielded[i].start : i \in 1..Len(yielded)}
    \cup {Unwrap(yielded[i].blob.offset) :
              i \in {j \in 1..Len(yielded) : IsSome(yielded[j].blob.offset)}}

BlobReaderSeek(target, io_fails) ==
    SeekCall("seek", [whence |-> "Start", n |-> target], io_fails)

RawSeeks ==
    { [whence |-> "Start", n |-> 0],
      [whence |-> "End", n |-> 0],
      [whence |-> "Current", n |-> 0],
      [whence |-> "Current", n |-> 0 - (Len(stream) + 2)] }

BlobReaderSeekRaw(from, io_fails) ==
    SeekCall("seek_raw", from, io_fails)

(***************************************************************************)
(* Blob::get_type, Blob::decode and decode_blob                            *)
(***************************************************************************)
\* osmformat::HeaderBlock has no required field of its own; its bbox
\* (field 1) is a HeaderBBox, whose four sint64 fields are all required
HeaderBlockSchema ==
    (1 :> 2) @@ (4 :> 2) @@ (5 :> 2) @@ (16 :> 2) @@ (17 :> 2) @@ (32 :> 0)
    @@ (33 :> 0) @@ (34 :> 2)
HeaderBBoxSchema == (1 :> 0) @@ (2 :> 0) @@ (3 :> 0) @@ (4 :> 0)

\* osmformat::PrimitiveBlock: required StringTable stringtable = 1,
\* repeated PrimitiveGroup primitivegroup = 2, four optional scalars
PrimitiveBlockSchema ==
    (1 :> 2) @@ (2 :> 2) @@ (17 :> 0) @@ (18 :> 0) @@ (19 :> 0) @@ (20 :> 0)
StringTableSchema == (1 :> 2)

\* a nested message, q the fields read from its bytes
NestedMessageOk(q, schema, required) ==
    /\ q.ok
    /\ WireTypesOk(q.fields, schema)
    /\ \A r \in required : HasField(q.fields, r)

\* every nested message of field num is parsed from the bytes of its field
NestedOk(fields, num, schema, required) ==
    \A k \in 1..Len(fields) :
        fields[k].num = num =>
            NestedMessageOk(ParseFields(fields[k].bytes, 1, <<>>), schema, required)

\* the block of type T built from the fields p read
BlockFrom(T, p) ==
    IF IF T = "To_headerblock"
       THEN /\ p.ok
            /\ WireTypesOk(p.fields, HeaderBlockSchema)
            /\ NestedOk(p.fields, 1, HeaderBBoxSchema, {1, 2, 3, 4})
       ELSE /\ p.ok
            /\ WireTypesOk(p.fields, PrimitiveBlockSchema)
            /\ HasField(p.fields, 1)
            /\ NestedOk(p.fields, 1, StringTableSchema, {})
            /\ NestedOk(p.fields, 2, <<>>, {})
    THEN [ok |-> TRUE, fields |-> p.fields]
    ELSE BadParse

\* parse_message_from_bytes / parse_message_from_reader for the block type T
ParseBlock(T, bytes) == BlockFrom(T, ParseFields(bytes, 1, <<>>))

\* the zlib decoder: a stream is the header byte 120 and the deflated data,
\* which the streams of the model store uncompressed; anything else is a
\* read error of the decoder
Inflate(zlib_data) ==
    IF Len(zlib_data) >= 1 /\ zlib_data[1] = 120
    THEN [ok |-> TRUE, bytes |-> Tail(zlib_data)]
    ELSE [ok |-> FALSE, bytes |-> <<>>]

\* size < MAX_BLOB_MESSAGE_SIZE
MessageSizeOk(size) == size < MAX_BLOB_MESSAGE_SIZE

\* .map_err(|e| new_protobuf_error(e, location))
\* a map_err that tags every failure as one of the blob content
MapErrBlobContent(m, location) ==
    IF m.ok THEN RetOk(m.fields) ELSE RetErr(ProtobufError("blob content"))

MapErr(m, location) ==
    IF m.ok THEN RetOk(m.fields) ELSE RetErr(ProtobufError(location))

\* the decoder behind take(MAX_BLOB_MESSAGE_SIZE); a failure of the decoder
\* is a read error of the parser
ParseInflated(T, z) ==
    IF z.ok
    THEN ParseBlock(T, SubSeq(z.bytes, 1, Min(Len(z.bytes), MAX_BLOB_MESSAGE_SIZE)))
    ELSE BadParse

\* mutant: the size tested is the declared one
RawSizeDeclared(len, raw_size) == raw_size
\* let size = blob.get_raw().len() as u64, whatever raw_size declares
RawSize(len, raw_size) == len

\* get_raw(), get_zlib_data() and get_raw_size() give the default of the
\* field when the field is absent
get_raw(blob) == IF IsSome(blob.raw) THEN Unwrap(blob.raw) ELSE << >>
get_zlib_data(blob) == IF IsSome(blob.zlib_data) THEN Unwrap(blob.zlib_data) ELSE << >>
get_raw_size(blob) == IF IsSome(blob.raw_size) THEN Unwrap(blob.raw_size) ELSE 0

\* mutant: a Blob without raw is taken to hold zlib_data
DecodeBlobNoEmpty(has_raw, size, raw_parsed, has_zlib_data, zlib_parsed) ==
    IF has_raw THEN
        IF MessageSizeOk(size) THEN MapErr(raw_parsed, "raw blob data")
        ELSE RetErr(MessageTooBig(size))
    ELSE MapErr(zlib_parsed, "blob zlib data")

\* a decode_blob that tests zlib_data before raw
DecodeBlobZlibFirst(has_raw, size, raw_parsed, has_zlib_data, zlib_parsed) ==
    IF has_zlib_data THEN MapErr(zlib_parsed, "blob zlib data")
    ELSE IF has_raw THEN
        IF MessageSizeOk(size) THEN MapErr(raw_parsed, "raw blob data")
        ELSE RetErr(MessageTooBig(size))
    ELSE RetErr(Empty)

\* the branches of decode_blob; size is the length of raw, raw_parsed and
\* zlib_parsed what the parser makes of raw and of the inflated zlib_data
DecodeBlobFrom(has_raw, size, raw_parsed, has_zlib_data, zlib_parsed) ==
    IF has_raw THEN
        IF MessageSizeOk(size) THEN MapErr(raw_parsed, "raw blob data")
        ELSE RetErr(MessageTooBig(size))
    ELSE IF has_zlib_data THEN MapErr(zlib_parsed, "blob zlib data")
    ELSE RetErr(Empty)

decode_blob(blob, T) ==
    DecodeBlobFrom(IsSome(blob.raw),
                   RawSize(Len(get_raw(blob)), get_raw_size(blob)),
                   ParseBlock(T, get_raw(blob)),
                   IsSome(blob.zlib_data),
                   ParseInflated(T, Inflate(get_zlib_data(blob))))

StartsWith(bytes, prefix) ==
    Len(bytes) >= Len(prefix) /\ SubSeq(bytes, 1, Len(prefix)) = prefix

\* mutant: the tag is matched by its prefix
get_type_prefix(b) ==
    IF StartsWith(b.header.field_type, TagOSMHeader) THEN [variant |-> "OsmHeader"]
    ELSE IF StartsWith(b.header.field_type, TagOSMData) THEN [variant |-> "OsmData"]
    ELSE [variant |-> "Unknown", tag |-> b.header.field_type]

\* the match on header.get_field_type()
get_type(b) ==
    IF b.header.field_type = TagOSMHeader THEN [variant |-> "OsmHeader"]
    ELSE IF b.header.field_type = TagOSMData THEN [variant |-> "OsmData"]
    ELSE [variant |-> "Unknown", tag |-> b.header.field_type]

to_headerblock(b) == decode_blob(b.blob, "To_headerblock")
to_primitiveblock(b) == decode_blob(b.blob, "To_primitiveblock")

\* Ok(BlobDecode::OsmHeader(block)) / Ok(BlobDecode::OsmData(block)), or the
\* Err that the ? operator passes on
Decoded(variant, block) ==
    IF block.kind = "Ok" THEN RetOk([variant |-> variant, block |-> block.val])
    ELSE block

\* the match of decode(), t the blob's type
DecodeAs(t, b) ==
    IF t.variant = "OsmHeader" THEN Decoded("OsmHeader", to_headerblock(b))
    ELSE IF t.variant = "OsmData" THEN Decoded("OsmData", to_primitiveblock(b))
    ELSE RetOk([variant |-> "Unknown", tag |-> t.tag])

decode(b) == DecodeAs(get_type(b), b)

\* decode() of the i-th blob the reader has yielded
BlobDecode(i) ==
    /\ decoded' = [idx |-> i, res |-> decode(yielded[i].blob)]
    /\ UNCHANGED << stream, pos, offset, last_blob_ok, seekable, ctor, initPos, last,
                    yielded, errSeen, seeks, seekFailed, faulted >>
    /\ UNCHANGED notReader

(***************************************************************************)
(* decode_blob on large payloads.  A payload of 32 MiB is not written out  *)
(* byte by byte: a large message is the sequence of its top-level fields,  *)
(* each with its number, its wire type, its encoded size in bytes and      *)
(* whether its contents are a message of the field's type.                 *)
(***************************************************************************)
SizedField(num, wt, size, nested_ok) ==
    [num |-> num, wt |-> wt, size |-> size, nested_ok |-> nested_ok]

RECURSIVE SizedLen(_)
\* the length in bytes of a large message
SizedLen(fields) ==
    IF fields = << >> THEN 0 ELSE Head(fields).size + SizedLen(Tail(fields))

RECURSIVE ParseSized(_, _, _, _, _)
\* Message::merge_from on a source that delivers the first limit bytes of
\* the message: fields are read until the source is exhausted; a source
\* that ends inside a field and a field of no known wire type are errors
ParseSized(fields, k, used, limit, acc) ==
    IF k > Len(fields) \/ used >= limit THEN [ok |-> TRUE, fields |-> acc]
    ELSE IF used + fields[k].size > limit \/ fields[k].wt \notin {0, 1, 2, 5}
    THEN BadParse
    ELSE ParseSized(fields, k + 1, used + fields[k].size, limit, Append(acc, fields[k]))

\* the block of type T built from the fields p read
SizedBlockFrom(T, p) ==
    IF IF T = "To_headerblock"
       THEN /\ p.ok
            /\ WireTypesOk(p.fields, HeaderBlockSchema)
            /\ \A k \in 1..Len(p.fields) : p.fields[k].num = 1 => p.fields[k].nested_ok
       ELSE /\ p.ok
            /\ WireTypesOk(p.fields, PrimitiveBlockSchema)
            /\ HasField(p.fields, 1)
            /\ \A k \in 1..Len(p.fields) :
                   p.fields[k].num \in {1, 2} => p.fields[k].nested_ok
    THEN [ok |-> TRUE, fields |-> p.fields]
    ELSE BadParse

\* parse_message_from_bytes for the block type T
ParseSizedBlock(T, fields) ==
    SizedBlockFrom(T, ParseSized(fields, 1, 0, SizedLen(fields), << >>))

\* zlib_data of a large Blob: whether the decoder accepts it, and the
\* message it inflates to
SizedZlib(valid, out) == [valid |-> valid, out |-> out]

get_sized_zlib_data(blob) ==
    IF IsSome(blob.zlib_data) THEN Unwrap(blob.zlib_data) ELSE SizedZlib(FALSE, << >>)

\* .take(MAX_BLOB_MESSAGE_SIZE): the bytes the parser can read of an
\* inflated message of len bytes
InflatedLimit(len) == Min(len, MAX_BLOB_MESSAGE_SIZE)

\* the decoder behind take(MAX_BLOB_MESSAGE_SIZE); a failure of the decoder
\* is a read error of the parser
ParseSizedInflated(T, z) ==
    IF z.valid
    THEN SizedBlockFrom(T, ParseSized(z.out, 1, 0, InflatedLimit(SizedLen(z.out)), << >>))
    ELSE BadParse

\* decode_blob on a large Blob
decode_blob_sized(blob, T) ==
    DecodeBlobFrom(IsSome(blob.raw),
                   RawSize(SizedLen(get_raw(blob)), get_raw_size(blob)),
                   ParseSizedBlock(T, get_raw(blob)),
                   IsSome(blob.zlib_data),
                   ParseSizedInflated(T, get_sized_zlib_data(blob)))

\* the fields of the large messages: fields 1 and 2 of a block, small or
\* of a size at the limit, a field of wire type 7 and a field 1 that is a
\* varint
SizedSizes == {2, MAX_BLOB_MESSAGE_SIZE - 2, MAX_BLOB_MESSAGE_SIZE}
SizedFields ==
    {SizedField(num, 2, size, ok) : num \in {1, 2}, size \in SizedSizes, ok \in BOOLEAN}
    \cup {SizedField(2, 7, 2, TRUE), SizedField(1, 0, 2, TRUE)}

SizedMessages == UNION {[1..n -> SizedFields] : n \in 0..MaxFields}

\* the Blob messages decode_blob is run on
SizedBlob(raw, raw_size, zlib_data) ==
    [raw |-> raw, raw_size |-> raw_size, zlib_data |-> zlib_data]

SizedBlobs ==
    {SizedBlob(Some(m), raw_size, None) :
        m \in SizedMessages, raw_size \in {None, Some(0), Some(MAX_BLOB_MESSAGE_SIZE)}}
    \cup {SizedBlob(None, None, Some(SizedZlib(valid, m))) :
        m \in SizedMessages, valid \in BOOLEAN}
    \cup {SizedBlob(Some(m), None, Some(z)) :
        m \in SizedMessages,
        z \in {SizedZlib(TRUE, << SizedField(1, 2, 2, TRUE) >>), SizedZlib(FALSE, << >>)}}
    \cup {SizedBlob(None, raw_size, None) : raw_size \in {None, Some(0)}}

\* decode_blob::<T>(blob), as to_headerblock and to_primitiveblock call it
DecodeBlobCall(T) ==
    /\ dresult' = [T |-> T, res |-> decode_blob_sized(dblob, T)]
    /\ UNCHANGED dblob
    /\ UNCHANGED notDecode

(***************************************************************************)
(* Constructors: BlobReader::new, new_seekable, from_path and              *)
(* seekable_from_path.                                                     *)
(***************************************************************************)
\* mutant: new() tracks the offset too
NewOffsetTracked(p) == Some(p)
\* BlobReader::new: offset: None
NewOffset(p) == None
\* mutant: new_seekable assumes the start of the stream
NewSeekableOffsetZero(p) == Some(0)
\* new_seekable: offset: Some(ByteOffset(pos)), pos the stream's position
NewSeekableOffset(p) == Some(p)
\* from_path: offset: Some(ByteOffset(0)) on a file just opened
FromPathOffset == Some(0)

\* a reader handed to new / new_seekable stands at the start of its stream
\* or behind the stream's first chunk
InitPositions(chunks) == {0} \cup {Len(chunks[k]) : k \in {1} \cap DOMAIN chunks}

Init ==
    \E chunks \in StreamChunks :
        /\ stream = Flatten(chunks)
        /\ \/ /\ ctor = "new"
              /\ seekable \in BOOLEAN
              /\ initPos \in InitPositions(chunks)
              /\ offset = NewOffset(initPos)
           \/ /\ ctor = "new_seekable"
              /\ seekable = TRUE
              /\ initPos \in InitPositions(chunks)
              /\ offset = NewSeekableOffset(initPos)
           \/ /\ ctor = "from_path"
              /\ seekable = TRUE
              /\ initPos = 0
              /\ offset = FromPathOffset
           \/ /\ ctor = "seekable_from_path"
              /\ seekable = TRUE
              /\ initPos = 0
              /\ offset = NewSeekableOffset(initPos)
        /\ pos = initPos
        /\ last_blob_ok = TRUE
        /\ last = [op |-> "new", ret |-> RetNone, start |-> initPos, avail |-> 0,
                   hsize |-> None, halted |-> FALSE, fault |-> "none",
                   seekedTo |-> None, afterOk |-> FALSE, afterDecodeErr |-> FALSE,
                   afterEof |-> FALSE]
        /\ yielded = <<>>
        /\ errSeen = FALSE
        /\ seeks = 0
        /\ seekFailed = FALSE
        /\ faulted = FALSE
        /\ decoded = [idx |-> 0, res |-> RetNone]
        /\ DecodeIdle
        /\ BlockIdle
        /\ BuildIdle /\ WayIdle /\ RelIdle
        /\ ElementsIdle

Next ==
    \/ \E fault \in Faults : \E eaten \in {0, Avail(pos)} : BlobReaderNext(fault, eaten)
    \/ \E target \in SeekTargets : \E io_fails \in BOOLEAN : BlobReaderSeek(target, io_fails)
    \/ \E from \in RawSeeks : \E io_fails \in BOOLEAN : BlobReaderSeekRaw(from, io_fails)
    \/ \E i \in 1..Len(yielded) : BlobDecode(i)

Spec == Init /\ [][Next]_vars

\* no reader is in play
ReaderIdle ==
    /\ stream = << >>
    /\ pos = 0
    /\ offset = None
    /\ last_blob_ok = TRUE
    /\ seekable = FALSE
    /\ ctor = "new"
    /\ initPos = 0
    /\ last = << >>
    /\ yielded = << >>
    /\ errSeen = FALSE
    /\ seeks = 0
    /\ seekFailed = FALSE
    /\ faulted = FALSE
    /\ decoded = << >>

(***************************************************************************)
(* The specification of decode_blob on large Blobs.                        *)
(***************************************************************************)
DecodeInit ==
    /\ dblob \in SizedBlobs
    /\ dresult = << >>
    /\ ReaderIdle
    /\ BlockIdle
    /\ BuildIdle /\ WayIdle /\ RelIdle
    /\ ElementsIdle

DecodeNext ==
    \/ DecodeBlobCall("To_headerblock")
    \/ DecodeBlobCall("To_primitiveblock")

DecodeSpec == DecodeInit /\ [][DecodeNext]_vars

(***************************************************************************)
(* Properties of the blob stream reader.                                   *)
(***************************************************************************)
IsNextCall == \E fault \in Faults : \E eaten \in {0, Avail(pos)} : BlobReaderNext(fault, eaten)

IsHeaderTooBig(ret) ==
    ret.kind = "Err" /\ ret.err.kind = "Blob" /\ ret.err.blob = "HeaderTooBig"

\* C1: once next() has yielded an Err, every later next() returns None,
\* whatever the stream still holds and whatever seeks were made since.
C1_HaltedAfterErr == [][(errSeen /\ IsNextCall) => last'.ret = RetNone]_vars

\* C1 witness: after an Err, a seek went back to the start of a blob read
\* earlier, and the next() that followed returned None there.
C1_Witness ==
    /\ errSeen
    /\ last.op = "next"
    /\ last.ret = RetNone
    /\ IsSome(last.seekedTo)
    /\ \E i \in 1..Len(yielded) : yielded[i].start = last.start

LenReadFailedUncleanly ==
    /\ last.op = "next"
    /\ ~last.halted
    /\ last.fault = "len" \/ last.avail \in 1..3

\* C3: a length read that fails for any reason but a clean end of stream,
\* a read truncated after 1 to 3 bytes included, yields
\* Err(InvalidHeaderSize) and halts the reader.
C3_UncleanLenReadIsError ==
    LenReadFailedUncleanly => last.ret = RetErr(InvalidHeaderSize) /\ ~last_blob_ok

(***************************************************************************)
(* The framing of the stream by its declared lengths, from position p on:  *)
(* a record is four length bytes, a header of that length that parses and  *)
(* a body of the declared datasize that parses.  The last record of a      *)
(* stream may be cut short by the end of the stream (not complete).        *)
(***************************************************************************)
RecordAt(p) ==
    IF p + 4 > Len(stream) THEN [ok |-> FALSE]
    ELSE LET H == ReadU32(p) IN
         IF H >= 65536 THEN [ok |-> FALSE]
         ELSE LET hend == Min(p + 4 + H, Len(stream))
                  h    == ParseBlobHeader(SubSeq(stream, p + 5, hend))
              IN  IF ~h.ok THEN [ok |-> FALSE]
                  ELSE LET D    == h.msg.datasize
                           bend == Min(hend + D, Len(stream))
                           b    == ParseBlobBody(SubSeq(stream, hend + 1, bend))
                       IN  IF ~b.ok THEN [ok |-> FALSE]
                           ELSE [ok |-> TRUE, header |-> h.msg, blob |-> b.msg,
                                 H |-> H, D |-> D, end |-> bend,
                                 complete |-> p + 4 + H + D <= Len(stream)]

\* a record that the stream holds in full
FrameAt(p) ==
    LET r == RecordAt(p) IN IF r.ok /\ r.complete THEN r ELSE [ok |-> FALSE]

RECURSIVE FrameStart(_)
\* the position of the i-th record counted from the reader's first position,
\* or -1 when the stream is not framed that far
FrameStart(i) ==
    IF i = 1 THEN initPos
    ELSE LET p == FrameStart(i - 1) IN
         IF p < 0 THEN -1
         ELSE IF RecordAt(p).ok THEN RecordAt(p).end ELSE -1

RECURSIVE RecordsFrom(_)
\* the number of records of a well-formed stream from position p on, or -1
\* when the stream is not a sequence of records there
RecordsFrom(p) ==
    IF p = Len(stream) THEN 0
    ELSE IF ~FrameAt(p).ok THEN -1
    ELSE LET n == RecordsFrom(FrameAt(p).end) IN IF n < 0 THEN -1 ELSE n + 1

\* C4: with no byte left where a length is expected, next() returns None
\* and no Err; a well-formed stream of k records, read without seeks and
\* without I/O errors, yields k blobs, no Err, and then None.
C4_CleanEndOfStream ==
    /\ (last.op = "next" /\ ~last.halted /\ last.avail = 0 /\ last.fault # "len")
          => last.ret = RetNone /\ last_blob_ok
    /\ (RecordsFrom(initPos) >= 0 /\ seeks = 0 /\ ~faulted)
          => /\ ~errSeen
             /\ Len(yielded) <= RecordsFrom(initPos)
             /\ (last.op = "next" /\ last.ret = RetNone)
                    => Len(yielded) = RecordsFrom(initPos)

\* C4 witness: a well-formed stream of three records was read to its end.
C4_Witness ==
    /\ RecordsFrom(initPos) = 3
    /\ seeks = 0
    /\ ~faulted
    /\ Len(yielded) = 3
    /\ last.op = "next"
    /\ last.ret = RetNone

\* C5: read without a seek, the i-th blob yielded is the i-th record of
\* the stream, header and body, and a record that is there is not passed
\* over: nothing is skipped, duplicated or reordered.
C5_StreamOrder ==
    seeks = 0 =>
        /\ \A i \in 1..Len(yielded) :
              LET p == FrameStart(i) IN
              /\ p >= 0
              /\ RecordAt(p).ok
              /\ yielded[i].start = p
              /\ yielded[i].blob.header = RecordAt(p).header
              /\ yielded[i].blob.blob = RecordAt(p).blob
        /\ (last.op = "next" /\ ~last.halted /\ last.fault = "none"
                /\ RecordAt(last.start).ok)
              => last.ret.kind = "Ok"

\* C5 witness: three records were yielded in a row.
C5_Witness ==
    /\ seeks = 0
    /\ Len(yielded) = 3
    /\ yielded[1].blob.header # yielded[2].blob.header
    /\ yielded[2].blob.header # yielded[3].blob.header

\* C6: when two next() calls in a row yield blobs and the first has offset
\* Some(p), the second has offset Some(p + 4 + H + D), H the header length
\* and D the declared payload size of the first.
C6_NextOffset ==
    (/\ last.op = "next"
     /\ last.ret.kind = "Ok"
     /\ last.afterOk
     /\ Len(yielded) >= 2
     /\ IsSome(yielded[Len(yielded) - 1].blob.offset))
    => LET b == yielded[Len(yielded) - 1]
       IN  last.ret.val.offset
             = Some(Unwrap(b.blob.offset) + 4 + b.hsize + b.blob.header.datasize)

\* C6 witness: the second of two blobs read in a row by a tracking reader.
C6_Witness ==
    /\ last.op = "next"
    /\ last.ret.kind = "Ok"
    /\ last.afterOk
    /\ Len(yielded) >= 2
    /\ IsSome(yielded[Len(yielded) - 1].blob.offset)
    /\ yielded[Len(yielded) - 1].blob.header.datasize > 0

\* the blobs yielded before the last call on the reader
YieldedBefore ==
    IF last.op = "next" /\ last.ret.kind = "Ok"
    THEN SubSeq(yielded, 1, Len(yielded) - 1) ELSE yielded

\* C7: after a blob with offset Some(p) was read, a seek to p that succeeds
\* and the next() behind it yield a blob with the same header and body and
\* with offset Some(p), provided no Err was yielded before and the read
\* meets no I/O error.
C7_SeekRoundTrip ==
    (/\ last.op = "next"
     /\ IsSome(last.seekedTo)
     /\ ~last.halted
     /\ last.fault = "none")
    => \A i \in 1..Len(YieldedBefore) :
          YieldedBefore[i].blob.offset = last.seekedTo
              => /\ last.ret.kind = "Ok"
                 /\ last.ret.val = YieldedBefore[i].blob

\* C7 witness: the first blob was read again after a second one and a seek.
C7_Witness ==
    /\ last.op = "next"
    /\ IsSome(last.seekedTo)
    /\ Len(yielded) = 3
    /\ yielded[3].blob = yielded[1].blob
    /\ IsSome(yielded[1].blob.offset)
    /\ yielded[2].blob # yielded[1].blob

\* C8: a reader made by new() on which no seek is called yields None as
\* the offset of every blob.
C8_NewHasNoOffset ==
    (ctor = "new" /\ seeks = 0) =>
        \A i \in 1..Len(yielded) : yielded[i].blob.offset = None

\* C8 witness: such a reader has yielded two blobs.
C8_Witness == ctor = "new" /\ seeks = 0 /\ Len(yielded) >= 2

\* every blob carries the position its length field starts at, and the first
\* blob of a reader not moved by a seek the position at construction
OffsetsAreStarts ==
    /\ \A i \in 1..Len(yielded) : yielded[i].blob.offset = Some(yielded[i].start)
    /\ (seeks = 0 /\ Len(yielded) >= 1) => yielded[1].blob.offset = Some(initPos)

C10_DecodeDispatch ==
    decoded.idx > 0 =>
        LET b == yielded[decoded.idx].blob
            t == b.header.field_type
            r == decoded.res
        IN  /\ r.kind \in {"Ok", "Err"}
            /\ t = << 79, 83, 77, 72, 101, 97, 100, 101, 114 >>
                  => (r.kind = "Ok" => r.val.variant = "OsmHeader")
            /\ t = << 79, 83, 77, 68, 97, 116, 97 >>
                  => (r.kind = "Ok" => r.val.variant = "OsmData")
            /\ (t # << 79, 83, 77, 72, 101, 97, 100, 101, 114 >>
                    /\ t # << 79, 83, 77, 68, 97, 116, 97 >>)
                  => r = RetOk([variant |-> "Unknown", tag |-> t])
            /\ r.kind = "Ok" => r.val.variant = get_type(b).variant

\* C10 witness: a blob tagged "OSMDataX" with an empty body was decoded.
C10_Witness ==
    /\ decoded.idx > 0
    /\ yielded[decoded.idx].blob.header.field_type = TagOSMDataX
    /\ yielded[decoded.idx].blob.blob.raw = None
    /\ decoded.res.kind = "Ok"

(***************************************************************************)
(* PrimitiveBlock::elements (BlockElementsIter), groups and                *)
(* for_each_element.  A group holds four lists: its dense nodes, as        *)
(* DenseNodeIter yields them, and its nodes, ways and relations.  A stored *)
(* item is known by its group, its list and its index in the list.         *)
(***************************************************************************)
Stored(g, list, n) == [i \in 1..n |-> [group |-> g, list |-> list, index |-> i]]

\* the g-th group of a block, with the given numbers of items
PrimitiveGroup(g, shape) ==
    [dense     |-> Stored(g, "dense", shape[1]),
     nodes     |-> Stored(g, "nodes", shape[2]),
     ways      |-> Stored(g, "ways", shape[3]),
     relations |-> Stored(g, "relations", shape[4])]

\* the numbers of dense nodes, nodes, ways and relations of a group
GroupShapes ==
    { << 0, 0, 0, 0 >>, << 2, 0, 0, 0 >>, << 0, 2, 0, 0 >>, << 0, 0, 1, 0 >>,
      << 0, 0, 0, 2 >>, << 1, 1, 0, 0 >>, << 1, 1, 1, 1 >>, << 0, 1, 0, 1 >> }

PrimitiveBlocks ==
    UNION { { [g \in 1..n |-> PrimitiveGroup(g, shapes[g])] : shapes \in [1..n -> GroupShapes] }
            : n \in 0..MaxGroups }

\* Element::Node(..), Element::DenseNode(..), Element::Way(..),
\* Element::Relation(..)
Element(variant, item) == [variant |-> variant, item |-> item]
Elements(variant, items) == [i \in 1..Len(items) |-> Element(variant, items[i])]

\* DenseNodeIter::new(block, group.get_dense()) and DenseNodeIter::empty
DenseNodeIterNew(group) == group.dense
DenseNodeIterEmpty == << >>

\* BlockElementsIter::new
BlockElementsIterNew(block) ==
    [state       |-> "Group",
     groups      |-> block,
     dense_nodes |-> DenseNodeIterEmpty,
     nodes       |-> << >>,
     ways        |-> << >>,
     relations   |-> << >>]

\* mutant: the nodes of a group come before its dense nodes
StateAfterNodesFirst(state) ==
    IF state = "Group" THEN "Node"
    ELSE IF state = "Node" THEN "DenseNode"
    ELSE IF state = "DenseNode" THEN "Way"
    ELSE IF state = "Way" THEN "Relation"
    ELSE "Group"

\* a step() that passes from Node to Relation, over the ways
StateAfterSkipWay(state) ==
    IF state = "Group" THEN "DenseNode"
    ELSE IF state = "DenseNode" THEN "Node"
    ELSE IF state = "Node" THEN "Relation"
    ELSE IF state = "Way" THEN "Relation"
    ELSE "Group"

\* a step() that stays in Relation when the relations are exhausted
StateAfterStuck(state) ==
    IF state = "Group" THEN "DenseNode"
    ELSE IF state = "DenseNode" THEN "Node"
    ELSE IF state = "Node" THEN "Way"
    ELSE "Relation"

\* the state that step() sets when the list of a state is exhausted, and
\* when a group has been fetched
StateAfter(state) ==
    IF state = "Group" THEN "DenseNode"
    ELSE IF state = "DenseNode" THEN "Node"
    ELSE IF state = "Node" THEN "Way"
    ELSE IF state = "Way" THEN "Relation"
    ELSE "Group"

\* step(): None when only the state advanced, Some(None) at the end of the
\* block, Some(Some(element)) otherwise
StepResult(it, out) == [it |-> it, out |-> out]

StepGroup(it) ==
    IF it.groups # << >>
    THEN StepResult([state       |-> StateAfter("Group"),
                     groups      |-> Tail(it.groups),
                     dense_nodes |-> DenseNodeIterNew(Head(it.groups)),
                     nodes       |-> Head(it.groups).nodes,
                     ways        |-> Head(it.groups).ways,
                     relations   |-> Head(it.groups).relations],
                    None)
    ELSE StepResult(it, Some(None))

\* the arm of a list: items what is left of the list, rest the iterator
\* with the list advanced
StepList(it, variant, items, rest) ==
    IF items # << >>
    THEN StepResult(rest, Some(Some(Element(variant, Head(items)))))
    ELSE StepResult([it EXCEPT !.state = StateAfter(it.state)], None)

step(it) ==
    IF it.state = "Group" THEN StepGroup(it)
    ELSE IF it.state = "DenseNode" THEN
        StepList(it, "DenseNode", it.dense_nodes, [it EXCEPT !.dense_nodes = Tail(@)])
    ELSE IF it.state = "Node" THEN
        StepList(it, "Node", it.nodes, [it EXCEPT !.nodes = Tail(@)])
    ELSE IF it.state = "Way" THEN
        StepList(it, "Way", it.ways, [it EXCEPT !.ways = Tail(@)])
    ELSE StepList(it, "Relation", it.relations, [it EXCEPT !.relations = Tail(@)])

RECURSIVE NextLoop(_)
\* BlockElementsIter::next: loop { if let Some(element) = self.step() ... },
\* s the result of the step just taken
NextLoop(s) ==
    IF IsSome(s.out) THEN [it |-> s.it, ret |-> Unwrap(s.out)]
    ELSE NextLoop(step(s.it))

\* iter.next(), r what the loop ends with
IterNextEffect(r) ==
    /\ iter' = r.it
    /\ emitted' = IF IsSome(r.ret) THEN Append(emitted, Unwrap(r.ret)) ELSE emitted
    /\ ended' = (ended \/ r.ret = None)
    /\ UNCHANGED << pblock, visited >>
    /\ UNCHANGED notBlock

BlockElementsIterNext == IterNextEffect(NextLoop(step(iter)))

\* PrimitiveBlock::groups and the iterators of a PrimitiveGroup
groups(block) == block
nodes(group) == group.nodes
dense_nodes(group) == DenseNodeIterNew(group)
ways(group) == group.ways
relations(group) == group.relations

\* mutant: the dense nodes are left out
ForEachInGroupNoDense(group) ==
    Elements("Node", nodes(group))
    \o Elements("Way", ways(group))
    \o Elements("Relation", relations(group))

\* the body of the loop of for_each_element: the calls of f for one group
ForEachInGroup(group) ==
    Elements("Node", nodes(group))
    \o Elements("DenseNode", dense_nodes(group))
    \o Elements("Way", ways(group))
    \o Elements("Relation", relations(group))

RECURSIVE ForEachGroup(_)
\* for group in self.groups() { ... }
ForEachGroup(gs) ==
    IF gs = << >> THEN << >> ELSE ForEachInGroup(Head(gs)) \o ForEachGroup(Tail(gs))

\* PrimitiveBlock::for_each_element, f recording its arguments
ForEachElement ==
    /\ visited' = Some(ForEachGroup(groups(pblock)))
    /\ UNCHANGED << pblock, iter, emitted, ended >>
    /\ UNCHANGED notBlock

(***************************************************************************)
(* The specification of the block iteration.                               *)
(***************************************************************************)
BlockInit ==
    /\ pblock \in PrimitiveBlocks
    /\ iter = BlockElementsIterNew(pblock)
    /\ emitted = << >>
    /\ ended = FALSE
    /\ visited = None
    /\ ReaderIdle
    /\ DecodeIdle
    /\ BuildIdle /\ WayIdle /\ RelIdle
    /\ ElementsIdle

BlockNext ==
    \/ BlockElementsIterNext
    \/ ForEachElement

BlockSpec == BlockInit /\ [][BlockNext]_vars

\* one transition of step(), as the loop of BlockElementsIter::next takes
\* it: a step that returns Some(..) ends a call of next(), and the step
\* after it begins the next call
BlockElementsIterStep ==
    /\ iter # << >>
    /\ LET s == step(iter)
       IN  /\ iter' = s.it
           /\ emitted' = IF IsSome(s.out) /\ IsSome(Unwrap(s.out))
                         THEN Append(emitted, Unwrap(Unwrap(s.out)))
                         ELSE emitted
           /\ ended' = (ended \/ s.out = Some(None))
    /\ UNCHANGED << pblock, visited >>
    /\ UNCHANGED notBlock

StepNext == BlockElementsIterStep

\* the iteration of a block step by step; the loop of next() goes on to
\* its following step, and the caller goes on calling next()
StepSpec == BlockInit /\ [][StepNext]_vars /\ WF_vars(StepNext)

(***************************************************************************)
(* i64 arithmetic.  An i64 is written as the pair (hi, lo) that stands for *)
(* the integer hi * 2^62 + lo; the values of the model have a lo far       *)
(* smaller than 2^62, so that a pair stands for one integer only.  The     *)
(* i64 range is -2^63 .. 2^63 - 1, that is (-2, 0) .. (2, -1).             *)
(***************************************************************************)
I64(hi, lo) == [hi |-> hi, lo |-> lo]
I64Of(n) == I64(0, n)
I64_MAX == I64(2, 0 - 1)
I64_MIN == I64(0 - 2, 0)

\* the sum of two integers, as an integer
Plus(a, b) == I64(a.hi + b.hi, a.lo + b.lo)

\* the integer is a value of i64
FitsI64(v) ==
    \/ v.hi \in {0 - 1, 0, 1}
    \/ v.hi = 2 /\ v.lo < 0
    \/ v.hi = 0 - 2 /\ v.lo >= 0

\* the integer modulo 2^64, as a value of i64 (2^64 is (4, 0))
WrapI64(v) ==
    IF FitsI64(v) THEN v
    ELSE LET h == v.hi % 4
         IN  IF h <= 1 THEN I64(h, v.lo)
             ELSE IF h = 3 THEN I64(0 - 1, v.lo)
             ELSE IF v.lo < 0 THEN I64(2, v.lo)
             ELSE I64(0 - 2, v.lo)

\* current += d on i64: with overflow checks a sum that does not fit
\* panics, without them it wraps
AddAssign(current, d, checks) ==
    IF FitsI64(Plus(current, d)) THEN [panic |-> FALSE, val |-> Plus(current, d)]
    ELSE IF checks THEN [panic |-> TRUE, val |-> current]
    ELSE [panic |-> FALSE, val |-> WrapI64(Plus(current, d))]

\* the deltas stored in the ways and relations of the model
Deltas == { I64Of(100), I64Of(0 - 50), I64Of(5), I64Of(10), I64Of(0 - 3), I64_MAX, I64_MIN }

(***************************************************************************)
(* Way::refs and WayRefIter                                                *)
(***************************************************************************)
Ways == UNION { [1..n -> Deltas] : n \in 0..MaxRefs }

\* Way::refs
WayRefIterNew(w) == [deltas |-> w, current |-> I64Of(0)]

\* WayRefIter::next on Some(&d), a the outcome of self.current += d
WayRefYield(a) ==
    /\ panicked' = a.panic
    /\ refIter' = [deltas |-> Tail(refIter.deltas), current |-> a.val]
    /\ refsOut' = IF a.panic THEN refsOut ELSE Append(refsOut, a.val)
    /\ UNCHANGED << way, refsEnded, overflow_checks >>

\* WayRefIter::next
WayRefIterNext ==
    /\ ~panicked
    /\ IF refIter.deltas # << >>
       THEN WayRefYield(AddAssign(refIter.current, Head(refIter.deltas), overflow_checks))
       ELSE /\ refsEnded' = TRUE
            /\ UNCHANGED << way, refIter, refsOut, overflow_checks, panicked >>
    /\ UNCHANGED notWay

WayInit ==
    /\ way \in Ways
    /\ refIter = WayRefIterNew(way)
    /\ refsOut = << >>
    /\ refsEnded = FALSE
    /\ overflow_checks \in BOOLEAN
    /\ panicked = FALSE
    /\ ReaderIdle /\ DecodeIdle /\ BlockIdle /\ RelIdle
    /\ ElementsIdle

WayNext == WayRefIterNext

WaySpec == WayInit /\ [][WayNext]_vars

(***************************************************************************)
(* Relation::members and RelMemberIter                                     *)
(***************************************************************************)
\* the roles_sid and the types of the relations of the model: the first n
\* of a fixed list each
RolesSid(n) == [i \in 1..n |-> 10 + i]
MemberTypes(n) == [i \in 1..n |-> << "NODE", "WAY", "RELATION" >>[((i - 1) % 3) + 1]]

MemIds ==
    UNION { [1..n -> { I64Of(10), I64Of(5), I64Of(0 - 3), I64_MAX }] : n \in 0..MaxMembers }

Relations ==
    { [roles_sid |-> RolesSid(r), memids |-> m, types |-> MemberTypes(t)] :
        r \in 0..MaxMembers, m \in MemIds, t \in 0..MaxMembers }

\* RelMemberType::from
RelMemberTypeFrom(rmt) ==
    IF rmt = "NODE" THEN "Node" ELSE IF rmt = "WAY" THEN "Way" ELSE "Relation"

\* RelMemberIter::new
RelMemberIterNew(r) ==
    [role_sids         |-> r.roles_sid,
     member_id_deltas  |-> r.memids,
     member_types      |-> r.types,
     current_member_id |-> I64Of(0)]

\* slice::Iter::next leaves an exhausted iterator exhausted
Advance(items) == IF items = << >> THEN << >> ELSE Tail(items)

\* the three iterators after the three next() calls of the match
Advanced(it, current) ==
    [role_sids         |-> Advance(it.role_sids),
     member_id_deltas  |-> Advance(it.member_id_deltas),
     member_types      |-> Advance(it.member_types),
     current_member_id |-> current]

\* the arm (Some(role_sid), Some(mem_id_delta), Some(member_type)), a the
\* outcome of self.current_member_id += *mem_id_delta
RelMemberYield(a) ==
    /\ panicked' = a.panic
    /\ memIter' = Advanced(memIter, a.val)
    /\ membersOut' =
          IF a.panic THEN membersOut
          ELSE Append(membersOut,
                      [role_sid    |-> Head(memIter.role_sids),
                       member_id   |-> a.val,
                       member_type |-> RelMemberTypeFrom(Head(memIter.member_types))])
    /\ UNCHANGED << rel, membersEnded, overflow_checks >>

\* the match arm taken: all three next() calls returned Some
AllSome(it) ==
    it.role_sids # << >> /\ it.member_id_deltas # << >> /\ it.member_types # << >>

\* RelMemberIter::next
RelMemberIterNext ==
    /\ ~panicked
    /\ IF AllSome(memIter)
       THEN RelMemberYield(AddAssign(memIter.current_member_id,
                                     Head(memIter.member_id_deltas), overflow_checks))
       ELSE /\ memIter' = Advanced(memIter, memIter.current_member_id)
            /\ membersEnded' = TRUE
            /\ UNCHANGED << rel, membersOut, overflow_checks, panicked >>
    /\ UNCHANGED notRel

RelInit ==
    /\ rel \in Relations
    /\ memIter = RelMemberIterNew(rel)
    /\ membersOut = << >>
    /\ membersEnded = FALSE
    /\ overflow_checks \in BOOLEAN
    /\ panicked = FALSE
    /\ ReaderIdle /\ DecodeIdle /\ BlockIdle /\ WayIdle
    /\ ElementsIdle

RelNext == RelMemberIterNext

RelSpec == RelInit /\ [][RelNext]_vars

(***************************************************************************)
(* The string table, str_from_stringtable, TagIter and RawTagIter          *)
(***************************************************************************)
\* error.rs: ErrorKind::StringtableUtf8 and StringtableIndexOutOfBounds
StringtableUtf8(index) == [kind |-> "StringtableUtf8", index |-> index]
StringtableIndexOutOfBounds(index) ==
    [kind |-> "StringtableIndexOutOfBounds", index |-> index]

\* a lookup that takes the entry after the last one for an entry of the table
StrFromStringtableInclusive(table, index) ==
    IF index <= Len(table)
    THEN IF index < Len(table) /\ ~IsUtf8(table[index + 1])
         THEN RetErr(StringtableUtf8(index))
         ELSE RetOk(IF index < Len(table) THEN table[index + 1] ELSE << >>)
    ELSE RetErr(StringtableIndexOutOfBounds(index))

\* block.rs: str_from_stringtable; the entries of the table count from 0
str_from_stringtable(table, index) ==
    IF index < Len(table)
    THEN IF IsUtf8(table[index + 1])
         THEN RetOk(table[index + 1])
         ELSE RetErr(StringtableUtf8(index))
    ELSE RetErr(StringtableIndexOutOfBounds(index))

\* the string tables of the model: empty, all entries UTF-8, and with an
\* entry that is not UTF-8 first, in the middle and last
StringTables ==
    { << >>,
      << <<97>> >>,
      << <<97>>, <<98>>, <<99>> >>,
      << <<255>>, <<98>>, <<99>> >>,
      << <<97>>, <<195, 40>>, <<99>> >>,
      << <<97>>, <<98>>, <<255>> >> }

\* the indices that the elements of the model store: into the tables, and
\* past the end of each
TagIndices == 0..3

\* the keys and vals of an element, of the same length or not
TaggedElements ==
    { [keys |-> k, vals |-> v] :
        k \in UNION { [1..n -> TagIndices] : n \in 0..MaxTags },
        v \in UNION { [1..n -> TagIndices] : n \in 0..MaxTags } }

\* Node::tags, Way::tags, Relation::tags
TagIterNew(e) == [key_indices |-> e.keys, val_indices |-> e.vals]

\* Node::raw_tags, Way::raw_tags, Relation::raw_tags
RawTagIterNew(e) == [key_indices |-> e.keys, val_indices |-> e.vals]

\* the position in keys and vals that the next call of next() reads, from 1
TagPosition(e, it) == Len(e.keys) - Len(it.key_indices) + 1

\* a TagIter that gives up the pair when the lookup of its key fails, and
\* yields the pair whatever the lookup of its value does
TagPairKeyOnly(table, key_index, val_index) ==
    LET k_res == str_from_stringtable(table, key_index)
        v_res == str_from_stringtable(table, val_index)
    IN  IF k_res.kind = "Ok"
        THEN Some(<< k_res.val, IF v_res.kind = "Ok" THEN v_res.val ELSE << >> >>)
        ELSE None

\* TagIter::next on (Some(&key_index), Some(&val_index)): the pair of
\* strings if both lookups are Ok, None otherwise
TagPair(table, key_index, val_index) ==
    LET k_res == str_from_stringtable(table, key_index)
        v_res == str_from_stringtable(table, val_index)
    IN  IF k_res.kind = "Ok" /\ v_res.kind = "Ok"
        THEN Some(<< k_res.val, v_res.val >>)
        ELSE None

\* TagIter::next: both slice iterators are advanced before the match, so a
\* call that returns None has moved past the pair it gave up
TagIterNext ==
    /\ tagIter # << >>
    /\ LET has  == tagIter.key_indices # << >> /\ tagIter.val_indices # << >>
           item == IF has
                   THEN TagPair(stringtable, Head(tagIter.key_indices),
                                Head(tagIter.val_indices))
                   ELSE None
       IN  /\ tagIter' = [key_indices |-> Advance(tagIter.key_indices),
                          val_indices |-> Advance(tagIter.val_indices)]
           /\ tagsOut' = IF IsSome(item)
                         THEN Append(tagsOut, [pos  |-> TagPosition(elem, tagIter),
                                               pair |-> Unwrap(item),
                                               afterNone |-> tagsNone])
                         ELSE tagsOut
           /\ tagsNone' = (tagsNone \/ item = None)
    /\ UNCHANGED << elem, rawIter, rawOut, rawNone >>
    /\ UNCHANGED notTag

\* a RawTagIter that yields the pair only if both indices are in the table
RawPairInTable(table, key_index, val_index) ==
    IF key_index < Len(table) /\ val_index < Len(table)
    THEN Some(<< key_index, val_index >>)
    ELSE None

\* RawTagIter::next on (Some(&key_index), Some(&val_index))
RawPair(table, key_index, val_index) == Some(<< key_index, val_index >>)

\* RawTagIter::next
RawTagIterNext ==
    /\ rawIter # << >>
    /\ LET has  == rawIter.key_indices # << >> /\ rawIter.val_indices # << >>
           item == IF has
                   THEN RawPair(stringtable, Head(rawIter.key_indices),
                                Head(rawIter.val_indices))
                   ELSE None
       IN  /\ rawIter' = [key_indices |-> Advance(rawIter.key_indices),
                          val_indices |-> Advance(rawIter.val_indices)]
           /\ rawOut' = IF IsSome(item) THEN Append(rawOut, Unwrap(item)) ELSE rawOut
           /\ rawNone' = (rawNone \/ item = None)
    /\ UNCHANGED << elem, tagIter, tagsOut, tagsNone >>
    /\ UNCHANGED notTag

\* an element of a block with any of the string tables, tags() and
\* raw_tags() called on it
TagInit ==
    /\ stringtable \in StringTables
    /\ elem \in TaggedElements
    /\ tagIter = TagIterNew(elem)
    /\ tagsOut = << >>
    /\ tagsNone = FALSE
    /\ rawIter = RawTagIterNew(elem)
    /\ rawOut = << >>
    /\ rawNone = FALSE
    /\ ReaderIdle /\ DecodeIdle /\ BlockIdle
    /\ BuildIdle /\ WayIdle /\ RelIdle
    /\ InfoIdle

TagNext ==
    \/ TagIterNext
    \/ RawTagIterNext

TagSpec == TagInit /\ [][TagNext]_vars

(***************************************************************************)
(* Info and the lookups of single strings                                  *)
(***************************************************************************)
\* the product of an integer and a small integer, as an integer
Times(a, g) == I64(a.hi * g, a.lo * g)

\* a * g on i64: with overflow checks a product that does not fit panics,
\* without them it wraps
Mul(a, g, checks) ==
    IF FitsI64(Times(a, g)) THEN [panic |-> FALSE, val |-> Times(a, g)]
    ELSE IF checks THEN [panic |-> TRUE, val |-> a]
    ELSE [panic |-> FALSE, val |-> WrapI64(Times(a, g))]

\* the has_ and get_ accessors of a generated message, on an optional
\* field: get_ returns the default of the field's type if it is unset
has(field) == IsSome(field)
get(field, default) == IF IsSome(field) THEN Unwrap(field) ELSE default

\* the Infos of the model: every field unset, set to its default, or set to
\* another value
Infos ==
    [ version   : {None, Some(0), Some(2)},
      timestamp : {None, Some(I64Of(0)), Some(I64Of(5)), Some(I64_MAX)},
      changeset : {None, Some(I64Of(0))},
      uid       : {None, Some(0)},
      user_sid  : {None, Some(0), Some(1), Some(3)},
      visible   : {None, Some(TRUE), Some(FALSE)} ]

\* the date_granularity of the block: 1000 if unset
DateGranularities == {1, 1000}

\* the roles_sid of the members whose role is looked up
RoleSids == {0, 2, 3}

\* Info::version
version(i) == IF has(i.version) THEN Some(get(i.version, 0)) ELSE None

\* Info::milli_timestamp: the outcome of the product, Some of its value
\* unless it panics
milli_timestamp(i, granularity, checks) ==
    IF has(i.timestamp)
    THEN LET m == Mul(get(i.timestamp, I64Of(0)), granularity, checks)
         IN  [panic |-> m.panic, val |-> Some(m.val)]
    ELSE [panic |-> FALSE, val |-> None]

\* Info::changeset
changeset(i) == IF has(i.changeset) THEN Some(get(i.changeset, I64Of(0))) ELSE None

\* Info::uid
uid(i) == IF has(i.uid) THEN Some(get(i.uid, 0)) ELSE None

\* Info::user
user(i, table) ==
    IF has(i.user_sid)
    THEN Some(str_from_stringtable(table, get(i.user_sid, 0)))
    ELSE None

\* an accessor that reads the stored flag only: false if it is unset
VisibleStored(i) == get(i.visible, FALSE)

\* Info::visible
visible(i) == IF has(i.visible) THEN get(i.visible, FALSE) ELSE TRUE

\* RelMember::role
role(table, role_sid) == str_from_stringtable(table, role_sid)

\* the call returned an Err of str_from_stringtable
LookupFailed(c) ==
    /\ c # << >>
    /\ \/ c.op \in {"str_from_stringtable", "role"} /\ c.ret.kind = "Err"
       \/ c.op = "user" /\ IsSome(c.ret) /\ Unwrap(c.ret).kind = "Err"

\* a call of an accessor or of a lookup has returned ret
Called(op, arg, ret) ==
    /\ ~panicked
    /\ called' = [op |-> op, arg |-> arg, ret |-> ret,
                  afterFail |-> (called # << >> /\ called.afterFail)
                                    \/ LookupFailed(called)]
    /\ UNCHANGED << info, date_granularity, overflow_checks, panicked >>
    /\ UNCHANGED notInfo

InfoVersion == Called("version", None, version(info))

InfoMilliTimestamp ==
    LET m == milli_timestamp(info, date_granularity, overflow_checks)
    IN  IF m.panic
        THEN /\ ~panicked
             /\ panicked' = TRUE
             /\ UNCHANGED << info, date_granularity, overflow_checks, called >>
             /\ UNCHANGED notInfo
        ELSE Called("milli_timestamp", None, m.val)

InfoChangeset == Called("changeset", None, changeset(info))

InfoUid == Called("uid", None, uid(info))

InfoUser == Called("user", None, user(info, stringtable))

InfoVisible == Called("visible", None, visible(info))

RelMemberRole(role_sid) == Called("role", role_sid, role(stringtable, role_sid))

StrFromStringtable(index) ==
    Called("str_from_stringtable", index, str_from_stringtable(stringtable, index))

\* an Info and a member of a relation in a block with any of the string
\* tables, in a build of either profile
InfoInit ==
    /\ stringtable \in StringTables
    /\ info \in Infos
    /\ date_granularity \in DateGranularities
    /\ called = << >>
    /\ overflow_checks \in BOOLEAN
    /\ panicked = FALSE
    /\ ReaderIdle /\ DecodeIdle /\ BlockIdle
    /\ WayIdle /\ RelIdle
    /\ TagIdle

InfoNext ==
    \/ InfoVersion
    \/ InfoMilliTimestamp
    \/ InfoChangeset
    \/ InfoUid
    \/ InfoUser
    \/ InfoVisible
    \/ \E role_sid \in RoleSids : RelMemberRole(role_sid)
    \/ \E index \in 0..(Len(stringtable) + 1) : StrFromStringtable(index)

InfoSpec == InfoInit /\ [][InfoNext]_vars

C12_OversizeInflatedIsErr ==
    (/\ dresult # << >>
     /\ dblob.raw = None
     /\ IsSome(dblob.zlib_data)
     /\ SizedLen(get_sized_zlib_data(dblob).out) > 33554432)
        => dresult.res.kind = "Err"

\* C13: decode() of a blob tagged "OSMHeader" or "OSMData" whose body has
\* neither raw nor zlib_data is Err(Empty).
C13_EmptyBody ==
    decoded.idx > 0 =>
        LET b == yielded[decoded.idx].blob
        IN  (/\ b.blob.raw = None
             /\ b.blob.zlib_data = None
             /\ b.header.field_type \in {TagOSMHeader, TagOSMData})
                => decoded.res = RetErr(Empty)

\* C13 witness: a blob tagged "OSMHeader" with an empty body was decoded.
C13_Witness ==
    /\ decoded.idx > 0
    /\ yielded[decoded.idx].blob.header.field_type = TagOSMHeader
    /\ yielded[decoded.idx].blob.blob.raw = None
    /\ yielded[decoded.idx].blob.blob.zlib_data = None
    /\ decoded.res.kind = "Err"

(***************************************************************************)
(* PrimitiveBlock::elements and for_each_element                           *)
(***************************************************************************)
IsPrefix(a, b) == Len(a) <= Len(b) /\ SubSeq(b, 1, Len(a)) = a

RECURSIVE StoredOrder(_)
\* the items of a block group by group, and in a group the dense nodes,
\* then the nodes, the ways and the relations, each list as stored
StoredOrder(gs) ==
    IF gs = << >> THEN << >>
    ELSE [i \in 1..Len(Head(gs).dense) |-> [variant |-> "DenseNode", item |-> Head(gs).dense[i]]]
         \o [i \in 1..Len(Head(gs).nodes) |-> [variant |-> "Node", item |-> Head(gs).nodes[i]]]
         \o [i \in 1..Len(Head(gs).ways) |-> [variant |-> "Way", item |-> Head(gs).ways[i]]]
         \o [i \in 1..Len(Head(gs).relations) |->
                [variant |-> "Relation", item |-> Head(gs).relations[i]]]
         \o StoredOrder(Tail(gs))

\* C15: what elements() has yielded so far is the start of the block's
\* items in stored group order with, in each group, dense nodes, nodes, ways
\* and relations in this order; once it has returned None it has yielded
\* all of them, empty lists and empty groups included.
C15_ElementsOrder ==
    /\ IsPrefix(emitted, StoredOrder(pblock))
    /\ ended => emitted = StoredOrder(pblock)

\* C15 witness: the iterator has reached the end of a block whose first
\* group is empty and whose second group holds all four kinds.
C15_Witness ==
    /\ ended
    /\ Len(pblock) = 2
    /\ StoredOrder(<< pblock[1] >>) = << >>
    /\ Len(pblock[2].dense) >= 1 /\ Len(pblock[2].nodes) >= 1
    /\ Len(pblock[2].ways) >= 1 /\ Len(pblock[2].relations) >= 1
    /\ Len(emitted) = 4

\* C16 as claimed: for_each_element passes to the visitor the sequence of
\* elements that elements() yields, in the same order.
C16_ForEachSameSequence ==
    (ended /\ IsSome(visited)) => Unwrap(visited) = emitted

RECURSIVE GroupCounts(_)
\* the sum over groups() of the counts of nodes(), dense_nodes(), ways()
\* and relations()
GroupCounts(gs) ==
    IF gs = << >> THEN 0
    ELSE Len(nodes(Head(gs))) + Len(dense_nodes(Head(gs))) + Len(ways(Head(gs)))
         + Len(relations(Head(gs))) + GroupCounts(Tail(gs))

\* the items stored in a block
StoredItems(block) ==
    UNION { {block[g].dense[i] : i \in 1..Len(block[g].dense)}
            \cup {block[g].nodes[i] : i \in 1..Len(block[g].nodes)}
            \cup {block[g].ways[i] : i \in 1..Len(block[g].ways)}
            \cup {block[g].relations[i] : i \in 1..Len(block[g].relations)}
            : g \in 1..Len(block) }

\* a sequence of elements that holds every item of the block once
EachItemOnce(seq, block) ==
    /\ \A i, j \in 1..Len(seq) : i # j => seq[i].item # seq[j].item
    /\ {seq[i].item : i \in 1..Len(seq)} = StoredItems(block)

\* C17: the elements for_each_element visits, and those elements() yields
\* up to its end, are as many as the groups' counts of nodes, dense nodes,
\* ways and relations add up to, and hold every stored item once.
C17_ElementCounts ==
    /\ IsSome(visited) =>
           /\ Len(Unwrap(visited)) = GroupCounts(groups(pblock))
           /\ EachItemOnce(Unwrap(visited), pblock)
    /\ ended =>
           /\ Len(emitted) = GroupCounts(groups(pblock))
           /\ EachItemOnce(emitted, pblock)

\* C17 witness: both traversals of a block of two groups, one of them with
\* dense nodes and nodes, are complete.
C17_Witness ==
    /\ ended
    /\ IsSome(visited)
    /\ Len(pblock) = 2
    /\ Len(pblock[1].dense) >= 1 /\ Len(pblock[1].nodes) >= 1
    /\ Len(pblock[2].relations) >= 1
    /\ Len(emitted) >= 3

(***************************************************************************)
(* Way::refs and Relation::members                                         *)
(***************************************************************************)
RECURSIVE SumTo(_, _)
\* d1 + ... + dk, as an integer
SumTo(deltas, k) == IF k = 0 THEN I64Of(0) ELSE Plus(SumTo(deltas, k - 1), deltas[k])

\* C18 as claimed: refs() never panics, the k-th value it yields is the sum
\* d1 + ... + dk of the way's first k deltas, and when it has returned None
\* it has yielded as many values as the way has deltas; for the deltas
\* [100, -50, 5] these are [100, 50, 55].
C18_RefsAreRunningSums ==
    /\ ~panicked
    /\ \A k \in 1..Len(refsOut) : k <= Len(way) /\ refsOut[k] = SumTo(way, k)
    /\ refsEnded => Len(refsOut) = Len(way)
    /\ (refsEnded /\ way = << I64Of(100), I64Of(0 - 50), I64Of(5) >>)
          => refsOut = << I64Of(100), I64Of(50), I64Of(55) >>

\* the least of three numbers
Min3(a, b, c) == Min(a, Min(b, c))

\* C19 as claimed: members() never panics, yields no more members than the
\* shortest of roles_sid, memids and types has entries, and when it has
\* returned None it has yielded exactly that many.
C19_MembersTruncate ==
    /\ ~panicked
    /\ Len(membersOut) <= Min3(Len(rel.roles_sid), Len(rel.memids), Len(rel.types))
    /\ membersEnded =>
          Len(membersOut) = Min3(Len(rel.roles_sid), Len(rel.memids), Len(rel.types))

\* C20 as claimed: the k-th member that members() yields has as member_id
\* the sum of the first k memids, as role_sid the k-th entry of roles_sid
\* and as member_type the k-th entry of types.
C20_MemberFields ==
    \A k \in 1..Len(membersOut) :
        /\ membersOut[k].member_id = SumTo(rel.memids, k)
        /\ membersOut[k].role_sid = rel.roles_sid[k]
        /\ membersOut[k].member_type =
              (CASE rel.types[k] = "NODE" -> "Node"
                 [] rel.types[k] = "WAY" -> "Way"
                 [] rel.types[k] = "RELATION" -> "Relation")


(***************************************************************************)
(* tags() and raw_tags()                                                   *)
(***************************************************************************)
\* the positions of keys and vals, from 1, that hold a pair
PairPositions(e) == 1..Min(Len(e.keys), Len(e.vals))

\* the positions whose key or value lookup in the table fails
FailingPositions(table, e) ==
    { k \in PairPositions(e) :
        \/ str_from_stringtable(table, e.keys[k]).kind = "Err"
        \/ str_from_stringtable(table, e.vals[k]).kind = "Err" }

\* C21 as claimed: every pair that tags() has yielded stands before every
\* position whose key or value lookup fails, however many times next() has
\* been called.
C21_TagsStopAtFirstFailure ==
    \A i \in 1..Len(tagsOut) :
        \A k \in FailingPositions(stringtable, elem) : tagsOut[i].pos < k

\* C22: raw_tags() yields the pairs (keys[k], vals[k]) in order, never more
\* than min(len(keys), len(vals)) of them and exactly that many once next()
\* has returned None, whatever the string table holds.
C22_RawTagsPairs ==
    (rawIter # << >>) =>
        /\ Len(rawOut) <= Min(Len(elem.keys), Len(elem.vals))
        /\ \A k \in 1..Len(rawOut) : rawOut[k] = << elem.keys[k], elem.vals[k] >>
        /\ rawNone => Len(rawOut) = Min(Len(elem.keys), Len(elem.vals))

\* C22 witness: vals is longer than keys, raw_tags() has yielded the one
\* pair and then None, and the pair holds an index past the end of a table
\* that is not empty.
C22_Witness ==
    /\ rawIter # << >>
    /\ rawNone
    /\ Len(elem.keys) = 1
    /\ Len(elem.vals) = 2
    /\ stringtable # << >>
    /\ rawOut = << << elem.keys[1], elem.vals[1] >> >>
    /\ elem.keys[1] >= Len(stringtable)


(***************************************************************************)
(* str_from_stringtable and Info                                           *)
(***************************************************************************)
\* the call was a lookup in the string table
IsLookup(c) ==
    /\ c # << >>
    /\ \/ c.op \in {"str_from_stringtable", "role"}
       \/ c.op = "user" /\ IsSome(c.ret)

\* the index that the lookup was made with, and what it returned
LookupIndex(c) == IF c.op = "user" THEN Unwrap(info.user_sid) ELSE c.arg
LookupResult(c) == IF c.op = "user" THEN Unwrap(c.ret) ELSE c.ret

\* C23: a lookup with index returns Err(StringtableIndexOutOfBounds{index})
\* exactly when index >= the length of the table, Err(StringtableUtf8{index})
\* exactly when the entry exists and is not UTF-8, and Ok of the entry
\* otherwise, directly or through RelMember::role() and Info::user(), and
\* whether or not an earlier lookup has failed.
C23_LookupResult ==
    IsLookup(called) =>
        LET index == LookupIndex(called)
            res   == LookupResult(called)
            n     == Len(stringtable)
        IN  /\ res = RetErr(StringtableIndexOutOfBounds(index)) <=> index >= n
            /\ res = RetErr(StringtableUtf8(index)) <=>
                   (index < n /\ \E k \in 1..Len(stringtable[index + 1]) :
                                     stringtable[index + 1][k] >= 128)
            /\ res.kind = "Ok" <=>
                   (index < n /\ \A k \in 1..Len(stringtable[index + 1]) :
                                     stringtable[index + 1][k] < 128)
            /\ res.kind = "Ok" => res.val = stringtable[index + 1]

\* C23 witness: after a lookup that failed, RelMember::role() has returned
\* the entry of a table that also holds an entry that is not UTF-8.
C23_Witness ==
    /\ called # << >>
    /\ called.op = "role"
    /\ called.afterFail
    /\ called.ret = RetOk(<<99>>)
    /\ \E k \in 1..Len(stringtable) : ~IsUtf8(stringtable[k])

\* C24: Info::visible() returns true when the visible flag is unset and the
\* stored value when it is set.
C24_Visible ==
    (called # << >> /\ called.op = "visible") =>
        called.ret = (IF info.visible = None THEN TRUE ELSE Unwrap(info.visible))

\* C24 witness: visible() has returned true on an Info without the flag.
C24_Witness ==
    /\ called # << >>
    /\ called.op = "visible"
    /\ info.visible = None
    /\ called.ret = TRUE

\* the field of the Info that the accessor reads
FieldOf(op) ==
    IF op = "version" THEN info.version
    ELSE IF op = "milli_timestamp" THEN info.timestamp
    ELSE IF op = "changeset" THEN info.changeset
    ELSE IF op = "uid" THEN info.uid
    ELSE info.user_sid

\* C30 as claimed: version(), milli_timestamp(), changeset(), uid() and
\* user() each return, and return None exactly when the field is unset and
\* Some otherwise, whatever the other fields and the stored value are.
C30_SomeIffPresent ==
    /\ ~panicked
    /\ (/\ called # << >>
        /\ called.op \in {"version", "milli_timestamp", "changeset", "uid", "user"}) =>
           /\ called.ret = None <=> FieldOf(called.op) = None
           /\ IsSome(called.ret) <=> IsSome(FieldOf(called.op))


(***************************************************************************)
(* The reader and the blobs it has yielded                                 *)
(***************************************************************************)
\* C25: a step in which decode() of a yielded blob returns leaves
\* last_blob_ok, the tracked offset and the position of the stream as they
\* were, and a next() called after a decode(), on a reader that has not
\* halted and meets no I/O error, yields the record at its position if
\* there is one.
C25_DecodeLeavesReader ==
    [][ /\ decoded'.idx # decoded.idx =>
              /\ last_blob_ok' = last_blob_ok
              /\ offset' = offset
              /\ pos' = pos
        /\ (/\ decoded.idx > 0
            /\ last'.op = "next"
            /\ last'.start = pos
            /\ last_blob_ok
            /\ last'.fault = "none"
            /\ RecordAt(pos).ok) =>
              /\ last'.ret.kind = "Ok"
              /\ last'.ret.val.header = RecordAt(pos).header
              /\ last'.ret.val.blob = RecordAt(pos).blob ]_vars

\* C25 witness: decode() of the first blob returned an Err, and the next()
\* called after it yielded the second record.
C25_Witness ==
    /\ decoded.idx = 1
    /\ decoded.res.kind = "Err"
    /\ last.op = "next"
    /\ last.afterDecodeErr
    /\ last.ret.kind = "Ok"
    /\ Len(yielded) = 2
    /\ seeks = 0


\* C26 as claimed: a next() that has returned Ok has consumed 4 + H + D
\* bytes of the stream, H the header length read and D the declared payload
\* size, and a tracked offset of Some(p) is the position of the stream.
C26_OffsetIsPosition ==
    /\ (last.op = "next" /\ last.ret.kind = "Ok") =>
           pos - last.start = 4 + Unwrap(last.hsize) + last.ret.val.header.datasize
    /\ IsSome(offset) => Unwrap(offset) = pos


CycleNext(state) ==
    CASE state = "Group"     -> "DenseNode"
      [] state = "DenseNode" -> "Node"
      [] state = "Node"      -> "Way"
      [] state = "Way"       -> "Relation"
      [] state = "Relation"  -> "Group"

\* the four sub-iterators, and the one that a state reads
SubIterators(it) == << it.dense_nodes, it.nodes, it.ways, it.relations >>
SubIteratorOf(it) ==
    CASE it.state = "DenseNode" -> it.dense_nodes
      [] it.state = "Node"      -> it.nodes
      [] it.state = "Way"       -> it.ways
      [] it.state = "Relation"  -> it.relations

\* the group of the block that comes after the groups already fetched
NextUnvisited(it) == pblock[Len(pblock) - Len(it.groups) + 1]

\* C27: a step of step() changes the state to the next state of the cycle
\* Group, DenseNode, Node, Way, Relation, Group or not at all; it leaves a
\* list state only when that state's sub-iterator is empty; outside Group it
\* fetches no group and changes no sub-iterator but, by one element, its
\* own; in Group it loads the four sub-iterators from the next unvisited
\* group, if there is one.
C27_StepCycle ==
    [][ /\ iter'.state # iter.state => iter'.state = CycleNext(iter.state)
        /\ (iter.state # "Group" /\ iter'.state # iter.state) =>
               /\ SubIteratorOf(iter) = << >>
               /\ SubIterators(iter') = SubIterators(iter)
        /\ iter.state # "Group" =>
               /\ iter'.groups = iter.groups
               /\ \A k \in 1..4 :
                      \/ SubIterators(iter')[k] = SubIterators(iter)[k]
                      \/ /\ SubIterators(iter)[k] = SubIteratorOf(iter)
                         /\ SubIterators(iter)[k] # << >>
                         /\ SubIterators(iter')[k] = Tail(SubIterators(iter)[k])
        /\ (iter.state = "Group" /\ iter.groups # << >>) =>
               /\ iter'.state = "DenseNode"
               /\ iter'.groups = Tail(iter.groups)
               /\ SubIterators(iter') =
                      << NextUnvisited(iter).dense, NextUnvisited(iter).nodes,
                         NextUnvisited(iter).ways, NextUnvisited(iter).relations >>
        /\ (iter.state = "Group" /\ iter.groups = << >>) => iter' = iter ]_vars

\* C27 witness: in the second group of a block step() has passed from Node
\* to Way with ways left to yield, after the elements of the first group.
C27_Witness ==
    /\ iter # << >>
    /\ Len(pblock) = 2
    /\ iter.groups = << >>
    /\ iter.state = "Way"
    /\ iter.ways # << >>
    /\ iter.nodes = << >>
    /\ Len(emitted) >= 3

\* C28: every call of next() returns after finitely many steps of step(),
\* the iterator returns None in the end, and once it has returned None the
\* state is Group and every later next() returns None and leaves the
\* iterator as it is.
C28_Terminates ==
    /\ \A n \in 0..(4 * MaxGroups) :
           (Len(emitted) = n /\ ~ended) ~> (Len(emitted) > n \/ ended)
    /\ <>ended
    /\ [](ended => /\ iter.state = "Group"
                   /\ NextLoop(step(iter)) = [it |-> iter, ret |-> None])
    /\ [][ended => (ended' /\ emitted' = emitted /\ iter' = iter)]_vars

\* C28 witness: step by step the iterator has yielded the eight elements of
\* a block of two groups and then None.
C28_Witness ==
    /\ ended
    /\ iter.state = "Group"
    /\ Len(pblock) = 2
    /\ Len(emitted) = 8
    /\ emitted = StoredOrder(pblock)
    /\ visited = None


(***************************************************************************)
(* Info::milli_timestamp                                                   *)
(***************************************************************************)
\* C31 as claimed: on an Info whose timestamp is present milli_timestamp()
\* returns, and returns Some of the product of the raw timestamp and the
\* block's date_granularity: the product never leaves i64.
C31_MilliTimestampProduct ==
    /\ ~panicked
    /\ (called # << >> /\ called.op = "milli_timestamp" /\ IsSome(info.timestamp)) =>
           /\ called.ret = Some(Times(Unwrap(info.timestamp), date_granularity))
           /\ FitsI64(Unwrap(called.ret))



(***************************************************************************)
(* The location tags of decode failures                                    *)
(***************************************************************************)
\* the bytes of the header message of the record that starts at p, as far
\* as the stream holds them
HeaderBytesAt(p) ==
    SubSeq(stream, p + 5, Min(p + 4 + ReadU32(p), Len(stream)))

\* C32: a failure to decode a message carries the tag of its stage: "blob
\* header" when next() fails on the header message, "blob content" when it
\* fails on the body message, and from decode_blob a tag of the block,
\* "raw blob data" or "blob zlib data", that is neither of the two.
C32_LocationTags ==
    /\ (/\ last.op = "next"
        /\ last.ret.kind = "Err"
        /\ last.ret.err.kind = "Protobuf") =>
           LET header_failed == \/ last.fault = "header"
                                \/ ~ParseBlobHeader(HeaderBytesAt(last.start)).ok
           IN  last.ret.err.location =
                   (IF header_failed THEN "blob header" ELSE "blob content")
    /\ (/\ decoded.idx > 0
        /\ decoded.res.kind = "Err"
        /\ decoded.res.err.kind = "Protobuf") =>
           /\ decoded.res.err.location \in {"raw blob data", "blob zlib data"}
           /\ decoded.res.err.location \notin {"blob header", "blob content"}
           /\ decoded.res.err.location =
                  (IF IsSome(yielded[decoded.idx].blob.blob.raw)
                   THEN "raw blob data" ELSE "blob zlib data")

\* C32 witness: decode() of a yielded blob has failed on its block, and the
\* next() after it has failed on the body message of the following record.
C32_Witness ==
    /\ decoded.idx > 0
    /\ decoded.res.kind = "Err"
    /\ decoded.res.err.kind = "Protobuf"
    /\ last.op = "next"
    /\ last.afterDecodeErr
    /\ last.fault = "none"
    /\ last.ret.kind = "Err"
    /\ last.ret.err.kind = "Protobuf"
    /\ last.ret.err.location = "blob content"


(***************************************************************************)
(* The end of the stream and seek                                          *)
(***************************************************************************)
\* C33: a next() that returns None at the clean end of the stream, no Err
\* having been yielded, leaves the reader unhalted; and when a seek(p) that
\* succeeds follows it, p the offset of a blob yielded before, the next()
\* behind the seek yields that blob again, with offset Some(p), unless the
\* read meets an I/O error.
C33_SeekAfterEndOfStream ==
    /\ (/\ last.op = "next"
        /\ last.ret.kind = "None"
        /\ ~last.halted
        /\ last.fault = "none"
        /\ last.avail = 0) => last_blob_ok
    /\ (/\ last.op = "next"
        /\ last.afterEof
        /\ IsSome(last.seekedTo)
        /\ last.fault = "none") =>
           \A i \in 1..Len(YieldedBefore) :
              YieldedBefore[i].blob.offset = last.seekedTo =>
                  /\ ~last.halted
                  /\ last.ret.kind = "Ok"
                  /\ last.ret.val.header = YieldedBefore[i].blob.header
                  /\ last.ret.val.blob = YieldedBefore[i].blob.blob
                  /\ last.ret.val.offset = last.seekedTo

\* C33 witness: two blobs were read, next() returned None at the end of
\* the stream, and after a seek to the offset of the second blob next()
\* has yielded the second blob again.
C33_Witness ==
    /\ last.op = "next"
    /\ last.afterEof
    /\ IsSome(last.seekedTo)
    /\ Len(yielded) = 3
    /\ yielded[2].blob.offset = last.seekedTo
    /\ yielded[1].blob.offset # last.seekedTo
    /\ yielded[3].blob = yielded[2].blob
    /\ last.ret.kind = "Ok"


(***************************************************************************)
(* size_hint of the iterators declared ExactSizeIterator                   *)
(***************************************************************************)
\* std::slice::Iter::size_hint: the number of items left, as both bounds
SliceSizeHint(items) == [lower |-> Len(items), upper |-> Some(Len(items))]

\* RelMemberIter::size_hint
RelMemberSizeHint(it) == SliceSizeHint(it.role_sids)

\* TagIter::size_hint
TagSizeHint(it) == SliceSizeHint(it.key_indices)

\* RawTagIter::size_hint
RawTagSizeHint(it) == SliceSizeHint(it.key_indices)

\* the bounds of an iterator that will yield n more items
ExactSize(n) == [lower |-> n, upper |-> Some(n)]

\* the number of pairs that the calls of next() to come can still yield: the
\* pairs left in which both lookups are Ok (a caller that stops at the first
\* None is yielded no more than these)
TagsLeft(table, it) ==
    Cardinality({ k \in 1..Min(Len(it.key_indices), Len(it.val_indices)) :
                    IsSome(TagPair(table, it.key_indices[k], it.val_indices[k])) })

\* C34 as claimed: at any point size_hint() of a TagIter, a RawTagIter and a
\* RelMemberIter returns, as both bounds, the number of items that the
\* iterator will still yield.
C34_SizeHintExact ==
    /\ tagIter # << >> =>
           TagSizeHint(tagIter) = ExactSize(TagsLeft(stringtable, tagIter))
    /\ rawIter # << >> =>
           RawTagSizeHint(rawIter) =
               ExactSize(Min(Len(rawIter.key_indices), Len(rawIter.val_indices)))
    /\ (memIter # << >> /\ ~panicked) =>
           RelMemberSizeHint(memIter) =
               ExactSize(Min3(Len(memIter.role_sids), Len(memIter.member_id_deltas),
                              Len(memIter.member_types)))

====
